---- MODULE Spec2Model ----
(***************************************************************************)
(* Model of the document ingestion pipeline of bello/module_generation.py: *)
(* the chunker, the model-response repair, module deduplication, quiz      *)
(* generation and the orchestrator (LangGraphAgent).                       *)
(*                                                                         *)
(* A Python str is a sequence of one-character strings.  The pure          *)
(* functions of the source are operators; each is exercised by a           *)
(* specification of its own whose Init draws the inputs from bounded sets. *)
(***************************************************************************)
EXTENDS Integers, Sequences, FiniteSets, TLC

VARIABLES
    \* a call of ContentStructurer.chunk_content
    text, max_tokens, max_chunks, chunks, chunk_pc,
    quiz_chunks,    \* QuizGenerator._chunk_module_content on the same text and budget
    adaptive_chunks, \* AdaptiveQuiz._chunk_content on the same text and budget
    \* a call of ContentStructurer._clean_json_response, and a second call on its result
    raw_response, cleaned_once, cleaned, clean_pc,
    extracted,      \* AdaptiveQuiz._extract_json of the same response
    repaired_text,  \* content_clean of the first call when it reaches line 311
    \* a call of ContentStructurer._deduplicate_modules, a second call on its
    \* result, and process_document_parts on the same modules cut into two parts
    modules_in, modules_out, dedup_pc,
    modules_again,  \* the result of the second call
    split,          \* the modules of the first part are modules_in[1..split]
    part_outputs,   \* what create_prerequisite_graph returned for each part
    parts_result,   \* what process_document_parts returned
    \* a run of LangGraphAgent.process_document
    doc,            \* the file at filepath: [kind, content]
    num_parts,      \* the argument num_parts
    max_chunk_size, \* LangGraphAgent.max_chunk_size
    chunk_limit,    \* LangGraphAgent.chunk_limit, 0 for None
    pc,             \* "idle", "start", "graph" (before a model invocation), "done"
    content_parts,  \* the texts handed to create_prerequisite_graph, in order
    part_idx,       \* the position in content_parts of the call under way
    part_chunks,    \* chunks of the create_prerequisite_graph call under way
    chunk_idx,      \* the chunk whose invocation comes next
    all_modules,    \* all_modules of the create_prerequisite_graph call under way
    parts_modules,  \* all_modules of process_document_parts
    graph_calls,    \* history: per create_prerequisite_graph call, its number of
                    \* chunks, the chunks invoked so far in order, whether it
                    \* returned, and what the chunk invoked last received and added
    outcome,        \* "none", "returned" or "raised"
    result,         \* the list returned
    \* a call of QuizGenerator.generate_quiz
    quiz_module,    \* the argument module: [name, summary, content]
    max_content_tokens, \* QuizGenerator.max_content_tokens
    quiz_pc,        \* "idle", "start", "invoke" (before a model invocation), "done"
    content_chunks, \* the chunks of the module's content
    quiz_idx,       \* the chunk whose invocation comes next
    all_questions,  \* all_questions so far
    quiz_log,       \* history: per chunk invoked, what the model did and the
                    \* questions the chunk added
    quiz_outcome,   \* "none", "returned" or "raised"
    quiz_error,     \* the class of the exception raised, or "none"
    unique_questions, \* the list returned
    adaptive_unique, \* AdaptiveQuiz._deduplicate_questions on the same questions
    \* a call of AdaptiveQuiz._generate_quiz_instructions, up to its weak topics
    student_data,   \* the argument student_data: [performance]
    adaptive_module, \* the argument module: [name, topics]
    module_topics,  \* the topics handed to _get_weak_topics
    weak_topics,    \* the list _get_weak_topics returned
    weak_pc,        \* "idle", "call", "returned"
    \* a call of ContentStructurer.parse_document
    parse_file,     \* the file at file_path: [kind, content]
    parse_pc,       \* "idle", "call", "done"
    parse_outcome,  \* what the call did: [exc, val]
    \* a request handled by CourseUploadView.post
    upload_pc,      \* the position of the handler
    temp_file,      \* the temporary file: "none", "exists" or "deleted"
    modules_data,   \* the number of modules process_document returned
    lesson_idx,     \* the module whose lesson comes next
    database,       \* the rows of the transaction: [course, lessons, quizzes]
    upload_log,     \* history: the steps of the handler, in order
    http_response   \* "none", "success" or "error"

vars_chunk ==
    <<text, max_tokens, max_chunks, chunks, chunk_pc, quiz_chunks, adaptive_chunks>>
vars_clean == <<raw_response, cleaned_once, cleaned, clean_pc, extracted, repaired_text>>

vars_dedup ==
    <<modules_in, modules_out, dedup_pc, modules_again, split, part_outputs,
      parts_result>>

vars_pipeline ==
    <<doc, num_parts, max_chunk_size, chunk_limit, pc, content_parts, part_idx,
      part_chunks, chunk_idx, all_modules, parts_modules, graph_calls, outcome, result>>

vars_quiz ==
    <<quiz_module, max_content_tokens, quiz_pc, content_chunks, quiz_idx,
      all_questions, quiz_log, quiz_outcome, quiz_error, unique_questions,
      adaptive_unique>>

vars_adaptive == <<student_data, adaptive_module, module_topics, weak_topics, weak_pc>>

vars_upload ==
    <<upload_pc, temp_file, modules_data, lesson_idx, database, upload_log, http_response>>

vars_parse == <<parse_file, parse_pc, parse_outcome>>

vars ==
    <<vars_chunk, vars_clean, vars_dedup, vars_pipeline, vars_quiz, vars_adaptive,
      vars_upload, vars_parse>>

(***************************************************************************)
(* Bounds of the model.                                                    *)
(***************************************************************************)
MaxTextLen == 5
MaxParas == 3
MaxBudget == 1
MaxRawLen == 3
MaxRawPieces == 3
MaxModules == 3
MaxElements == 2
MaxParts == 2
MaxChunkLimit == 3
MaxAttempts == 5
MaxTopics == 3

(***************************************************************************)
(* Characters and strings.                                                 *)
(***************************************************************************)
NL == "\n"
SP == " "

\* the characters Python's \s matches, among those the model uses
Whitespace == {" ", "\n", "\t"}

\* [.!?] of the sentence-boundary regex
SentenceEnd == {".", "!", "?"}

\* All sequences over alphabet of length at most n.
RECURSIVE StringsUpTo(_, _)
StringsUpTo(alphabet, n) ==
    IF n = 0 THEN {<<>>}
    ELSE LET shorter == StringsUpTo(alphabet, n - 1)
         IN  shorter \cup {Append(s, c) : s \in {t \in shorter : Len(t) = n - 1}, c \in alphabet}

\* sep.join(parts)
RECURSIVE Join(_, _)
Join(sep, parts) ==
    IF parts = <<>> THEN <<>>
    ELSE IF Len(parts) = 1 THEN parts[1]
    ELSE parts[1] \o sep \o Join(sep, Tail(parts))

\* "".join(parts)
RECURSIVE Concat(_)
Concat(parts) ==
    IF parts = <<>> THEN <<>> ELSE parts[1] \o Concat(Tail(parts))

estimate_tokens(s) == Len(s) \div 4

\* s.split('\n\n'), scanning s from index i with the piece cur under construction
RECURSIVE SplitParagraphsFrom(_, _, _)
SplitParagraphsFrom(s, i, cur) ==
    IF i > Len(s) THEN <<cur>>
    ELSE IF i < Len(s) /\ s[i] = NL /\ s[i + 1] = NL
         THEN <<cur>> \o SplitParagraphsFrom(s, i + 2, <<>>)
         ELSE SplitParagraphsFrom(s, i + 1, Append(cur, s[i]))

SplitParagraphs(s) == SplitParagraphsFrom(s, 1, <<>>)

\* index of the last character of the whitespace run of s that starts at i
RECURSIVE WhitespaceRunEnd(_, _)
WhitespaceRunEnd(s, i) ==
    IF i < Len(s) /\ s[i + 1] \in Whitespace THEN WhitespaceRunEnd(s, i + 1) ELSE i

\* re.split(r'(?<=[.!?])\s+', s)
RECURSIVE SplitSentencesFrom(_, _, _)
SplitSentencesFrom(s, i, cur) ==
    IF i > Len(s) THEN <<cur>>
    ELSE IF s[i] \in Whitespace /\ i > 1 /\ s[i - 1] \in SentenceEnd
         THEN <<cur>> \o SplitSentencesFrom(s, WhitespaceRunEnd(s, i) + 1, <<>>)
         ELSE SplitSentencesFrom(s, i + 1, Append(cur, s[i]))

SplitSentences(s) == SplitSentencesFrom(s, 1, <<>>)

(***************************************************************************)
(* ContentStructurer.chunk_content                                         *)
(***************************************************************************)

\* mutant of SectionOverflows: the budget itself already overflows
SectionOverflowsAtBudget(current_token_estimate, section_tokens, budget) ==
    current_token_estimate + section_tokens >= budget

\* if current_token_estimate + section_tokens > self.max_tokens
SectionOverflows(current_token_estimate, section_tokens, budget) ==
    current_token_estimate + section_tokens > budget

\* mutant of SentenceOverflows: the sentences of a section are never cut apart
SentenceNeverOverflows(sub_token_count, sentence_tokens, budget) == FALSE

\* if sub_token_count + sentence_tokens > self.max_tokens
SentenceOverflows(sub_token_count, sentence_tokens, budget) ==
    sub_token_count + sentence_tokens > budget

\* mutant of FlushChunk: the paragraphs of a chunk joined by one line break
FlushChunkOneBreak(cs, current_chunk) ==
    IF current_chunk # <<>> THEN Append(cs, Join(<<NL>>, current_chunk)) ELSE cs

\* if current_chunk: chunks.append("\n\n".join(current_chunk))
FlushChunk(cs, current_chunk) ==
    IF current_chunk # <<>> THEN Append(cs, Join(<<NL, NL>>, current_chunk)) ELSE cs

\* if sub_chunk: chunks.append(" ".join(sub_chunk))
FlushSubChunk(cs, sub_chunk) ==
    IF sub_chunk # <<>> THEN Append(cs, Join(<<SP>>, sub_chunk)) ELSE cs

\* the sentence loop of an oversized section: acc = [chunks, sub, count]
RECURSIVE SentenceLoop(_, _, _, _)
SentenceLoop(sentences, i, budget, acc) ==
    IF i > Len(sentences) THEN acc
    ELSE LET sentence == sentences[i]
             sentence_tokens == estimate_tokens(sentence)
         IN  IF SentenceOverflows(acc.count, sentence_tokens, budget)
             THEN SentenceLoop(sentences, i + 1, budget,
                      [chunks |-> FlushSubChunk(acc.chunks, acc.sub),
                       sub    |-> <<sentence>>,
                       count  |-> sentence_tokens])
             ELSE SentenceLoop(sentences, i + 1, budget,
                      [chunks |-> acc.chunks,
                       sub    |-> Append(acc.sub, sentence),
                       count  |-> acc.count + sentence_tokens])

\* mutant of SplitLargeSection: the sentences left after the loop are forgotten
SplitLargeSectionWithoutLastFlush(section, budget, chunks_in) ==
    SentenceLoop(SplitSentences(section), 1, budget,
                 [chunks |-> chunks_in, sub |-> <<>>, count |-> 0]).chunks

\* the chunks of one oversized section, appended to chunks_in
SplitLargeSection(section, budget, chunks_in) ==
    LET acc == SentenceLoop(SplitSentences(section), 1, budget,
                            [chunks |-> chunks_in, sub |-> <<>>, count |-> 0])
    IN  FlushSubChunk(acc.chunks, acc.sub)

\* the section loop: st = [chunks, current_chunk, current_token_estimate]
RECURSIVE SectionLoop(_, _, _, _)
SectionLoop(sections, i, budget, st) ==
    IF i > Len(sections) THEN st
    ELSE LET section == sections[i]
             section_tokens == estimate_tokens(section)
             flushed == FlushChunk(st.chunks, st.current_chunk)
         IN  IF SectionOverflows(st.current_token_estimate, section_tokens, budget)
             THEN IF section_tokens > budget
                  THEN SectionLoop(sections, i + 1, budget,
                           [chunks |-> SplitLargeSection(section, budget, flushed),
                            current_chunk |-> <<>>,
                            current_token_estimate |-> 0])
                  ELSE SectionLoop(sections, i + 1, budget,
                           [chunks |-> flushed,
                            current_chunk |-> <<section>>,
                            current_token_estimate |-> section_tokens])
             ELSE SectionLoop(sections, i + 1, budget,
                      [chunks |-> st.chunks,
                       current_chunk |-> Append(st.current_chunk, section),
                       current_token_estimate |-> st.current_token_estimate + section_tokens])

\* the chunks before the max_chunks limit is applied
NaturalChunks(content, budget) ==
    LET st == SectionLoop(SplitParagraphs(content), 1, budget,
                          [chunks |-> <<>>, current_chunk |-> <<>>,
                           current_token_estimate |-> 0])
    IN  FlushChunk(st.chunks, st.current_chunk)

\* for i in range(0, len(chunks), size): "\n\n".join(chunks[i:i+size])
RECURSIVE CombineChunks(_, _, _)
CombineChunks(cs, i, size) ==
    IF i > Len(cs) THEN <<>>
    ELSE LET last == IF i + size - 1 < Len(cs) THEN i + size - 1 ELSE Len(cs)
         IN  <<Join(<<NL, NL>>, SubSeq(cs, i, last))>> \o CombineChunks(cs, i + size, size)

\* mutant of NewChunkSize: the remainder is forgotten
NewChunkSizeRoundedDown(n, limit) == n \div limit

\* line 190: len(chunks) // max_chunks + (1 if len(chunks) % max_chunks else 0)
NewChunkSize(n, limit) == (n \div limit) + (IF n % limit # 0 THEN 1 ELSE 0)

\* max_chunks = 0 stands for None (both are falsy in the guard of the limit)
chunk_content(content, budget, limit) ==
    LET natural == NaturalChunks(content, budget)
    IN  IF limit # 0 /\ Len(natural) > limit
        THEN CombineChunks(natural, 1, NewChunkSize(Len(natural), limit))
        ELSE natural

(***************************************************************************)
(* ContentStructurer._clean_json_response                                  *)
(***************************************************************************)
QUOTE == "\""
BACKSLASH == "\\"
\* the grave accent: the lexer accepts none inside a string, so the character is named
BACKTICK == "GRAVE"

\* [\x00-\x1f], among the characters the model uses
ControlChars == {"\n", "\t"}

\* the letters str.lower() changes, and what it makes of them
UpperLetters ==
    <<"A", "B", "C", "D", "E", "F", "G", "H", "I", "J", "K", "L", "M",
      "N", "O", "P", "Q", "R", "S", "T", "U", "V", "W", "X", "Y", "Z">>

LowerLetters ==
    <<"a", "b", "c", "d", "e", "f", "g", "h", "i", "j", "k", "l", "m",
      "n", "o", "p", "q", "r", "s", "t", "u", "v", "w", "x", "y", "z">>

\* str.lower() on one character
LowerChar(c) ==
    IF \E i \in DOMAIN UpperLetters : UpperLetters[i] = c
    THEN LowerLetters[CHOOSE i \in DOMAIN UpperLetters : UpperLetters[i] = c]
    ELSE c

\* str.lower()
Lower(s) == [i \in 1..Len(s) |-> LowerChar(s[i])]

\* s.count(c)
Count(s, c) == Cardinality({i \in 1..Len(s) : s[i] = c})

\* str.strip()
RECURSIVE LStrip(_)
LStrip(s) == IF s # <<>> /\ s[1] \in Whitespace THEN LStrip(Tail(s)) ELSE s

RECURSIVE RStrip(_)
RStrip(s) ==
    IF s # <<>> /\ s[Len(s)] \in Whitespace THEN RStrip(SubSeq(s, 1, Len(s) - 1)) ELSE s

Strip(s) == RStrip(LStrip(s))

\* s[i:].startswith(prefix), i counted from 1
StartsWithAt(s, i, prefix) ==
    /\ i + Len(prefix) - 1 <= Len(s)
    /\ SubSeq(s, i, i + Len(prefix) - 1) = prefix

\* re.search(r'(?s)(<open>.*<close>)', s): from the first open to the last close
\* after it; <<>> stands for no match (a match holds two characters at least)
GreedySpan(s, open, close) ==
    LET opens == {i \in 1..Len(s) : s[i] = open}
        closes == {i \in 1..Len(s) : s[i] = close}
    IN  IF opens = {} \/ closes = {} THEN <<>>
        ELSE LET first == CHOOSE i \in opens : \A k \in opens : i <= k
                 last == CHOOSE j \in closes : \A k \in closes : k <= j
             IN  IF first < last THEN SubSeq(s, first, last) ELSE <<>>

\* lines 291-295: the array span, else the object span, else the whole text
ExtractSpan(response_content) ==
    LET array == GreedySpan(response_content, "[", "]")
        object == GreedySpan(response_content, "{", "}")
    IN  IF array # <<>> THEN array
        ELSE IF object # <<>> THEN object
        ELSE response_content

\* re.sub(r'```(?:json)?', '', s, flags=re.IGNORECASE)
RECURSIVE StripFencesFrom(_, _)
StripFencesFrom(s, i) ==
    IF i > Len(s) THEN <<>>
    ELSE IF StartsWithAt(s, i, <<BACKTICK, BACKTICK, BACKTICK>>)
         THEN IF /\ i + 6 <= Len(s)
                 /\ Lower(SubSeq(s, i + 3, i + 6)) = <<"j", "s", "o", "n">>
              THEN StripFencesFrom(s, i + 7)
              ELSE StripFencesFrom(s, i + 3)
         ELSE <<s[i]>> \o StripFencesFrom(s, i + 1)

StripFences(s) == StripFencesFrom(s, 1)

\* re.sub(r'(?<!\\)"', '"', s): a quote not preceded by a backslash becomes a quote
FixUnescapedQuotes(s) ==
    [i \in 1..Len(s) |->
        IF s[i] = QUOTE /\ ~(i > 1 /\ s[i - 1] = BACKSLASH) THEN QUOTE ELSE s[i]]

\* the first k >= i with s[k..k+1] = \" , or 0
RECURSIVE NextEscapedQuote(_, _)
NextEscapedQuote(s, i) ==
    IF i >= Len(s) THEN 0
    ELSE IF s[i] = BACKSLASH /\ s[i + 1] = QUOTE THEN i
    ELSE NextEscapedQuote(s, i + 1)

\* re.sub(r'\\"(.*?)\\"', r'"\1"', s): '.' matches no line break
RECURSIVE FixEscapedQuotesFrom(_, _)
FixEscapedQuotesFrom(s, i) ==
    IF i > Len(s) THEN <<>>
    ELSE LET k == IF StartsWithAt(s, i, <<BACKSLASH, QUOTE>>)
                  THEN NextEscapedQuote(s, i + 2) ELSE 0
         IN  IF k # 0 /\ \A m \in (i + 2)..(k - 1) : s[m] # NL
             THEN <<QUOTE>> \o SubSeq(s, i + 2, k - 1) \o <<QUOTE>>
                      \o FixEscapedQuotesFrom(s, k + 2)
             ELSE <<s[i]>> \o FixEscapedQuotesFrom(s, i + 1)

FixEscapedQuotes(s) == FixEscapedQuotesFrom(s, 1)

\* re.sub(r',\s*(?=[\]}])', '', s)
RECURSIVE RemoveTrailingCommasFrom(_, _)
RemoveTrailingCommasFrom(s, i) ==
    IF i > Len(s) THEN <<>>
    ELSE LET j == WhitespaceRunEnd(s, i)
         IN  IF s[i] = "," /\ j < Len(s) /\ s[j + 1] \in {"]", "}"}
             THEN RemoveTrailingCommasFrom(s, j + 1)
             ELSE <<s[i]>> \o RemoveTrailingCommasFrom(s, i + 1)

RemoveTrailingCommas(s) == RemoveTrailingCommasFrom(s, 1)

\* re.sub(r'[\x00-\x1f]', '', s)
RemoveControlChars(s) == SelectSeq(s, LAMBDA c : c \notin ControlChars)

\* ']' * n
RECURSIVE Repeat(_, _)
Repeat(c, n) == IF n <= 0 THEN <<>> ELSE <<c>> \o Repeat(c, n - 1)

\* mutant of EnsureTermination: one closing bracket is appended, however many
\* are missing
EnsureTerminationByOne(content_clean) ==
    LET stripped == Strip(content_clean)
    IN  IF ~(stripped # <<>> /\ stripped[Len(stripped)] = "]")
           /\ Count(content_clean, "[") > Count(content_clean, "]")
        THEN Append(content_clean, "]")
        ELSE content_clean

\* lines 311-314: append the missing closing brackets
EnsureTermination(content_clean) ==
    LET stripped == Strip(content_clean)
    IN  IF ~(stripped # <<>> /\ stripped[Len(stripped)] = "]")
        THEN content_clean
                 \o Repeat("]", Count(content_clean, "[") - Count(content_clean, "]"))
        ELSE content_clean

\* lines 291-308: content_clean after the extraction and the basic repairs
RepairedText(response_content) ==
    RemoveControlChars(RemoveTrailingCommas(FixEscapedQuotes(FixUnescapedQuotes(
        StripFences(ExtractSpan(response_content))))))

_clean_json_response(response_content) ==
    Strip(EnsureTermination(RepairedText(response_content)))

(***************************************************************************)
(* AdaptiveQuiz._extract_json (src/bello/adaptive.py)                      *)
(***************************************************************************)

\* re.search(r'(?s)(\[.*\]|\{.*\})', text) from position i on: at the leftmost
\* position where an alternative matches, the array alternative is tried first and
\* runs to the last closing character; <<>> stands for no match
RECURSIVE JsonMatchFrom(_, _)
JsonMatchFrom(s, i) ==
    IF i > Len(s) THEN <<>>
    ELSE LET close == IF s[i] = "[" THEN "]" ELSE "}"
             closes == {j \in (i + 1)..Len(s) : s[j] = close}
         IN  IF s[i] \in {"[", "{"} /\ closes # {}
             THEN SubSeq(s, i, CHOOSE j \in closes : \A k \in closes : k <= j)
             ELSE JsonMatchFrom(s, i + 1)

\* str.replace('```', '')
RECURSIVE RemoveCodeBlocksFrom(_, _)
RemoveCodeBlocksFrom(s, i) ==
    IF i > Len(s) THEN <<>>
    ELSE IF StartsWithAt(s, i, <<BACKTICK, BACKTICK, BACKTICK>>)
         THEN RemoveCodeBlocksFrom(s, i + 3)
         ELSE <<s[i]>> \o RemoveCodeBlocksFrom(s, i + 1)

\* lines 184-187: the basic repairs
BasicRepairs(json_str) ==
    RemoveTrailingCommas(FixUnescapedQuotes(
        RemoveCodeBlocksFrom(StripFences(json_str), 1)))

_extract_json(response_text) ==
    LET json_str == JsonMatchFrom(response_text, 1)
    IN  IF json_str = <<>> THEN <<"[", "]">> ELSE BasicRepairs(json_str)

(***************************************************************************)
(* ContentStructurer._deduplicate_modules                                  *)
(*                                                                         *)
(* A module is a record [name, summary, content, prerequisites]; the dict  *)
(* `seen` is the sequence of its values in insertion order.  list(set(..)) *)
(* yields the merged prerequisites in an order the language leaves open,   *)
(* so the function has a set of possible results.                          *)
(***************************************************************************)

\* set(xs)
ToSet(xs) == {xs[i] : i \in DOMAIN xs}

\* list(S): S in any order
Orderings(S) ==
    {p \in [1..Cardinality(S) -> S] : \A i, j \in DOMAIN p : p[i] = p[j] => i = j}

\* mutant of ModuleKey: the key taken from the wrong field
ModuleKeyBySummary(mod) == Lower(mod.summary)

\* key = mod['name'].lower()
ModuleKey(mod) == Lower(mod.name)

\* the position of key in seen, or 0
SeenIndex(seen, key) ==
    IF \E i \in DOMAIN seen : ModuleKey(seen[i]) = key
    THEN CHOOSE i \in DOMAIN seen : ModuleKey(seen[i]) = key
    ELSE 0

\* mutant of MergeContent: the later content put in front
MergeContentInFront(content, later) == later \o <<NL, NL>> \o content

\* seen[key]['content'] += "\n\n" + mod['content']
MergeContent(content, later) == content \o <<NL, NL>> \o later

\* mutant of MergeInto: the prerequisites of the first occurrence are kept as
\* they are
MergeIntoKeepingFirst(existing, mod) ==
    { [existing EXCEPT !.content = MergeContent(existing.content, mod.content)] }

\* lines 347-350: the possible values of seen[key] after mod is merged into it
MergeInto(existing, mod) ==
    { [existing EXCEPT !.content = MergeContent(existing.content, mod.content),
                       !.prerequisites = merged]
        : merged \in Orderings(ToSet(existing.prerequisites \o mod.prerequisites)) }

\* the loop over modules from position i on: the possible final values of seen
RECURSIVE DeduplicateFrom(_, _, _)
DeduplicateFrom(modules, i, seen) ==
    IF i > Len(modules) THEN {seen}
    ELSE LET mod == modules[i]
             at == SeenIndex(seen, ModuleKey(mod))
         IN  IF at # 0
             THEN UNION { DeduplicateFrom(modules, i + 1, [seen EXCEPT ![at] = merged])
                            : merged \in MergeInto(seen[at], mod) }
             ELSE DeduplicateFrom(modules, i + 1, Append(seen, mod))

\* the possible results of _deduplicate_modules(modules)
_deduplicate_modules(modules) == DeduplicateFrom(modules, 1, <<>>)

(***************************************************************************)
(* Values and exceptions.                                                  *)
(*                                                                         *)
(* A value that json.loads returns is tagged with its type: a str, a list, *)
(* a module object (a dict, each of its four keys holding a value or       *)
(* absent), or another value (a number, null, a boolean: neither iterable  *)
(* nor a str).  A computation that may raise returns [exc, val]: exc is    *)
(* "none" or the class of the exception raised.                            *)
(***************************************************************************)
JAbsent == [t |-> "absent"]
JOther == [t |-> "other"]
JStr(s) == [t |-> "str", v |-> s]
JList(xs) == [t |-> "list", v |-> xs]
JModule(n, s, c, ps) ==
    [t |-> "object", name |-> n, summary |-> s, content |-> c, prerequisites |-> ps]

\* json.loads raised json.JSONDecodeError
DecodeError == [t |-> "decode_error"]

Ok(v) == [exc |-> "none", val |-> v]
Raise(e) == [exc |-> e, val |-> <<>>]

\* the exception classes of the model; each derives from Exception
ExceptionClasses ==
    {"Exception", "FileNotFoundError", "ValueError", "RuntimeError",
     "TypeError", "AttributeError", "KeyError", "JSONDecodeError"}

\* mutant of CatchesException: a handler for the document errors only
CatchesDocumentErrorsOnly(exc) == exc \in {"FileNotFoundError", "ValueError"}

\* `except Exception as e:` catches exc
CatchesException(exc) == exc \in ExceptionClasses

\* mutant of CatchesDecodeError: the handler of line 257 catches every exception
CatchesEveryError(exc) == exc \in ExceptionClasses

\* `except json.JSONDecodeError as e:` catches exc
CatchesDecodeError(exc) == exc = "JSONDecodeError"

\* needle in haystack, for two str
IsSubstring(needle, haystack) ==
    \E i \in 1..(Len(haystack) + 1) : StartsWithAt(haystack, i, needle)

NameKey == <<"n", "a", "m", "e">>
ContentKey == <<"c", "o", "n", "t", "e", "n", "t">>

(***************************************************************************)
(* ContentStructurer.create_prerequisite_graph: one chunk of the loop      *)
(***************************************************************************)

\* `for mod in modules_chunk`: the items the loop visits
IterateValue(value) ==
    CASE value.t = "list" -> Ok(value.v)
      [] value.t = "str" -> Ok([i \in 1..Len(value.v) |-> JStr(<<value.v[i]>>)])
      [] value.t = "object" ->
            Ok(SelectSeq(<<JStr(NameKey), JStr(ContentKey)>>,
                         LAMBDA k : IF k.v = NameKey THEN value.name # JAbsent
                                    ELSE value.content # JAbsent))
      [] OTHER -> Raise("TypeError")

\* key in mod
HasKey(mod, key) ==
    CASE mod.t = "object" ->
            Ok(IF key = NameKey THEN mod.name # JAbsent ELSE mod.content # JAbsent)
      [] mod.t = "str" -> Ok(IsSubstring(key, mod.v))
      [] mod.t = "list" -> Ok(\E i \in DOMAIN mod.v : mod.v[i] = JStr(key))
      [] OTHER -> Raise("TypeError")

\* mutant of HasRequiredKeys: only 'name' is required
HasNameKey(mod) == HasKey(mod, NameKey)

\* all(key in mod for key in ['name', 'content'])
HasRequiredKeys(mod) ==
    LET name == HasKey(mod, NameKey)
    IN  IF name.exc # "none" \/ ~name.val THEN name ELSE HasKey(mod, ContentKey)

\* value.strip()
StripValue(value) ==
    IF value.t = "str" THEN Ok(Strip(value.v)) ELSE Raise("AttributeError")

\* [p.strip() for p in items] from position i on
RECURSIVE StripItemsFrom(_, _, _)
StripItemsFrom(items, i, done) ==
    IF i > Len(items) THEN Ok(done)
    ELSE LET p == StripValue(items[i])
         IN  IF p.exc # "none" THEN p ELSE StripItemsFrom(items, i + 1, Append(done, p.val))

\* [p.strip() for p in mod.get('prerequisites', [])]
StripPrerequisites(value) ==
    IF value = JAbsent THEN Ok(<<>>)
    ELSE LET items == IterateValue(value)
         IN  IF items.exc # "none" THEN items ELSE StripItemsFrom(items.val, 1, <<>>)

\* lines 247-252 (268-273): the record built from an object that has both keys
BuildModule(mod) ==
    IF mod.t # "object" THEN Raise("TypeError")
    ELSE LET name == StripValue(mod.name)
             summary == IF mod.summary = JAbsent THEN Ok(<<>>) ELSE StripValue(mod.summary)
             content == StripValue(mod.content)
             prerequisites == StripPrerequisites(mod.prerequisites)
         IN  IF name.exc # "none" THEN name
             ELSE IF summary.exc # "none" THEN summary
             ELSE IF content.exc # "none" THEN content
             ELSE IF prerequisites.exc # "none" THEN prerequisites
             ELSE Ok([name |-> name.val, summary |-> summary.val,
                      content |-> content.val, prerequisites |-> prerequisites.val])

\* lines 244-252 (265-273): the validation loop from position i on
RECURSIVE ValidateFrom(_, _, _)
ValidateFrom(items, i, valid_modules) ==
    IF i > Len(items) THEN Ok(valid_modules)
    ELSE LET keys == HasRequiredKeys(items[i])
         IN  IF keys.exc # "none" THEN keys
             ELSE IF ~keys.val THEN ValidateFrom(items, i + 1, valid_modules)
             ELSE LET built == BuildModule(items[i])
                  IN  IF built.exc # "none" THEN built
                      ELSE ValidateFrom(items, i + 1, Append(valid_modules, built.val))

\* json.loads gave modules_chunk: the valid modules of the chunk, or the exception
ValidateModules(modules_chunk) ==
    IF modules_chunk = DecodeError THEN Raise("JSONDecodeError")
    ELSE LET items == IterateValue(modules_chunk)
         IN  IF items.exc # "none" THEN items ELSE ValidateFrom(items.val, 1, <<>>)

\* lines 262-277: the deep-repair path; its bare `except:` catches everything
RepairPath(repaired_value) ==
    LET valid == ValidateModules(repaired_value)
    IN  IF valid.exc = "none" THEN Ok(valid.val) ELSE Ok(<<>>)

\* lines 240-277: the first parse, and the repair path on a decode error
ParsePaths(response) ==
    LET valid == ValidateModules(response.direct)
    IN  IF valid.exc = "none" THEN Ok(valid.val)
        ELSE IF CatchesDecodeError(valid.exc) THEN RepairPath(response.repaired)
        ELSE valid

\* the calls of _repair_json (line 262) in the body of the loop for one chunk
RepairAttempts(response) ==
    IF response.kind # "text" THEN 0
    ELSE LET valid == ValidateModules(response.direct)
         IN  IF valid.exc # "none" /\ CatchesDecodeError(valid.exc) THEN 1 ELSE 0

\* lines 218-281: the body of the loop for one chunk, given what the model did:
\* the modules the chunk adds to all_modules, or the exception that leaves the loop
ProcessChunk(response) ==
    LET body == CASE response.kind = "raises" -> Raise("Exception")
                  [] response.kind = "empty" -> Ok(<<>>)
                  [] OTHER -> ParsePaths(response)
    IN  IF body.exc # "none" /\ CatchesException(body.exc) THEN Ok(<<>>) ELSE body

(***************************************************************************)
(* LangGraphAgent: parse_document, split_document, process_document        *)
(***************************************************************************)

\* os.path.exists(filepath)
PathExists(d) == d.kind # "missing"

\* lines 91-99: the parser chosen by the extension; parse_pdf and parse_docx
\* raise RuntimeError on any extraction error, another extension is a ValueError
ParseByExtension(d) ==
    CASE d.kind = "unsupported" -> Raise("ValueError")
      [] d.kind = "corrupt" -> Raise("RuntimeError")
      [] OTHER -> Ok(d.content)

\* ContentStructurer.parse_document on the file d: whatever lines 91-99 raise is
\* raised again as a RuntimeError (lines 100-101)
parse_document(d) ==
    IF ~PathExists(d) THEN Raise("FileNotFoundError")
    ELSE LET parsed == ParseByExtension(d)
         IN  IF parsed.exc # "none" /\ CatchesException(parsed.exc)
             THEN Raise("RuntimeError")
             ELSE parsed

\* a call of parse_document
CallParseDocument ==
    /\ parse_pc = "call"
    /\ parse_outcome' = parse_document(parse_file)
    /\ parse_pc' = "done"
    /\ UNCHANGED parse_file
    /\ UNCHANGED <<vars_chunk, vars_clean, vars_dedup, vars_pipeline, vars_quiz,
                   vars_adaptive, vars_upload>>

\* mutant of ContentIsEmpty: an empty text is taken for content
ContentNeverEmpty(content) == FALSE

\* `if not content:`
ContentIsEmpty(content) == content = <<>>

\* mutant of SplitByLength: the last part ends like the others, at a multiple of
\* part_size
SplitByLengthEqualParts(content, n) ==
    LET part_size == Len(content) \div n
    IN  [k \in 1..n |-> SubSeq(content, (k - 1) * part_size + 1, k * part_size)]

\* lines 501-508: content cut into n parts by length
SplitByLength(content, n) ==
    LET content_length == Len(content)
        part_size == content_length \div n
    IN  [k \in 1..n |->
            SubSeq(content, (k - 1) * part_size + 1,
                   IF k < n THEN k * part_size ELSE content_length)]

\* LangGraphAgent.split_document: the parts, or [] when anything fails
split_document(d, n) ==
    LET parsed == IF ~PathExists(d) THEN Raise("FileNotFoundError")
                  ELSE parse_document(d)
        parts == IF parsed.exc # "none" THEN parsed
                 ELSE IF ContentIsEmpty(parsed.val) THEN Raise("ValueError")
                 ELSE Ok(SplitByLength(parsed.val, n))
    IN  IF parts.exc # "none" /\ CatchesException(parts.exc) THEN Ok(<<>>) ELSE parts

\* lines 555-561: the text that process_document hands on when num_parts <= 1
WholeDocument(d) ==
    LET parsed == IF ~PathExists(d) THEN Raise("FileNotFoundError")
                  ELSE parse_document(d)
    IN  IF parsed.exc # "none" THEN parsed
        ELSE IF ContentIsEmpty(parsed.val) THEN Raise("ValueError")
        ELSE Ok(<<parsed.val>>)

\* lines 555-572: the texts to process, or the exception raised before any of them
\* is processed
TextsToProcess(d, n) ==
    IF ~PathExists(d) THEN Raise("FileNotFoundError")
    ELSE IF n <= 1 THEN WholeDocument(d)
    ELSE split_document(d, n)

\* mutant of Return: process_document without the handler of line 575
ReturnUncaught(r) ==
    /\ pc' = "done"
    /\ IF r.exc = "none" THEN outcome' = "returned" /\ result' = r.val
       ELSE outcome' = "raised" /\ result' = <<>>

\* process_document ends: with the list r.val, or with the exception r.exc unless
\* the handler of line 575 catches it
Return(r) ==
    /\ pc' = "done"
    /\ IF r.exc = "none" THEN outcome' = "returned" /\ result' = r.val
       ELSE IF CatchesException(r.exc) THEN outcome' = "returned" /\ result' = <<>>
       ELSE outcome' = "raised" /\ result' = <<>>

\* mutant of Extend: the new modules are put in front
ExtendInFront(modules, more) == more \o modules

\* all_modules.extend(more) (lines 254, 275 and 535)
Extend(modules, more) == modules \o more

\* history: no chunk of the call has been invoked yet
NothingInvoked == [response |-> [kind |-> "none"], added |-> <<>>, repairs |-> 0]

\* create_prerequisite_graph is entered on the text at position k of parts
EnterGraph(parts, k) ==
    /\ pc' = "graph"
    /\ part_idx' = k
    /\ part_chunks' = chunk_content(parts[k], max_chunk_size, chunk_limit)
    /\ chunk_idx' = 1
    /\ all_modules' = <<>>
    /\ graph_calls' =
           Append(graph_calls,
                  [chunks |-> Len(chunk_content(parts[k], max_chunk_size, chunk_limit)),
                   invoked |-> <<>>, returned |-> FALSE, last |-> NothingInvoked])

\* process_document up to its first model invocation, or to its end
ProcessDocument ==
    /\ pc = "start"
    /\ LET texts == TextsToProcess(doc, num_parts)
       IN  IF texts.exc # "none"
           THEN /\ Return(texts)
                /\ UNCHANGED <<content_parts, part_idx, part_chunks, chunk_idx,
                               all_modules, parts_modules, graph_calls>>
           ELSE IF texts.val = <<>>
           THEN \* process_document_parts([]) returns _deduplicate_modules([])
                /\ \E final \in _deduplicate_modules(<<>>) : Return(Ok(final))
                /\ UNCHANGED <<content_parts, part_idx, part_chunks, chunk_idx,
                               all_modules, parts_modules, graph_calls>>
           ELSE /\ content_parts' = texts.val
                /\ EnterGraph(texts.val, 1)
                /\ UNCHANGED <<parts_modules, outcome, result>>
    /\ UNCHANGED <<doc, num_parts, max_chunk_size, chunk_limit>>
    /\ UNCHANGED <<vars_chunk, vars_clean, vars_dedup, vars_quiz,
                   vars_adaptive, vars_upload, vars_parse>>

\* the history of the call under way, with chunk i invoked, the model doing o
\* (and the call returned): the chunks invoked so far with the modules each
\* added and, for the chunk invoked last, what the model did and how many times
\* _repair_json was called
Invoked(i, o, body, returns) ==
    [graph_calls EXCEPT ![Len(graph_calls)] =
        [@ EXCEPT !.invoked = Append(@, [chunk |-> i, kind |-> o.kind,
                                         added |-> body.val]),
                  !.returned = returns,
                  !.last = [response |-> o, added |-> body.val,
                            repairs |-> RepairAttempts(o)]]]

\* the create_prerequisite_graph call under way ends with r (its modules, or an
\* exception), history being the history up to there: what its caller does next
LeaveGraph(r, history) ==
    IF num_parts <= 1
    THEN \* lines 563-570
         /\ Return(r)
         /\ UNCHANGED <<part_idx, part_chunks, chunk_idx, parts_modules>>
         /\ all_modules' = <<>>
         /\ graph_calls' = history
    ELSE IF r.exc # "none" /\ ~CatchesException(r.exc)
    THEN \* the handler of line 537 does not catch: the exception reaches line 575
         /\ Return(r)
         /\ UNCHANGED <<part_idx, part_chunks, chunk_idx, parts_modules>>
         /\ all_modules' = <<>>
         /\ graph_calls' = history
    ELSE LET collected == IF r.exc = "none" THEN Extend(parts_modules, r.val)
                          ELSE parts_modules
         IN  /\ parts_modules' = collected
             /\ IF part_idx < Len(content_parts)
                THEN \* the next part enters create_prerequisite_graph
                     /\ part_idx' = part_idx + 1
                     /\ part_chunks' = chunk_content(content_parts[part_idx + 1],
                                                     max_chunk_size, chunk_limit)
                     /\ chunk_idx' = 1
                     /\ all_modules' = <<>>
                     /\ graph_calls' =
                            Append(history,
                                   [chunks |-> Len(chunk_content(content_parts[part_idx + 1],
                                                                 max_chunk_size, chunk_limit)),
                                    invoked |-> <<>>, returned |-> FALSE,
                                    last |-> NothingInvoked])
                     /\ UNCHANGED <<pc, outcome, result>>
                ELSE \* lines 540-543
                     /\ \E final \in _deduplicate_modules(collected) : Return(Ok(final))
                     /\ UNCHANGED <<part_idx, part_chunks, chunk_idx>>
                     /\ all_modules' = <<>>
                     /\ graph_calls' = history

\* mutant of NextChunkIndex: a chunk whose invocation raised is tried again
NextChunkIndexWithRetry(i, o) == IF o.kind = "raises" THEN i ELSE i + 1

\* `for idx, chunk in enumerate(chunks)`: the chunk that follows chunk i, whatever
\* the model did (o) on chunk i
NextChunkIndex(i, o) == i + 1

(***************************************************************************)
(* QuizGenerator._chunk_module_content and QuizGenerator.generate_quiz     *)
(***************************************************************************)

\* lines 384-393: the sentence loop of a long paragraph
RECURSIVE QuizSentenceLoop(_, _, _, _)
QuizSentenceLoop(sentences, i, budget, acc) ==
    IF i > Len(sentences) THEN acc
    ELSE LET sentence == sentences[i]
             sent_tokens == estimate_tokens(sentence)
         IN  IF acc.sentence_tokens + sent_tokens > budget
             THEN QuizSentenceLoop(sentences, i + 1, budget,
                      [chunks |-> IF acc.sentence_chunk # <<>>
                                  THEN Append(acc.chunks, Join(<<SP>>, acc.sentence_chunk))
                                  ELSE acc.chunks,
                       sentence_chunk |-> <<sentence>>,
                       sentence_tokens |-> sent_tokens])
             ELSE QuizSentenceLoop(sentences, i + 1, budget,
                      [chunks |-> acc.chunks,
                       sentence_chunk |-> Append(acc.sentence_chunk, sentence),
                       sentence_tokens |-> acc.sentence_tokens + sent_tokens])

\* mutant of QuizSplitLongParagraph: a long paragraph is one chunk
QuizKeepLongParagraph(para, budget, chunks_in) == Append(chunks_in, para)

\* lines 381-395: the chunks of a long paragraph, appended to chunks_in
QuizSplitLongParagraph(para, budget, chunks_in) ==
    LET acc == QuizSentenceLoop(SplitSentences(para), 1, budget,
                   [chunks |-> chunks_in, sentence_chunk |-> <<>>, sentence_tokens |-> 0])
    IN  IF acc.sentence_chunk # <<>>
        THEN Append(acc.chunks, Join(<<SP>>, acc.sentence_chunk))
        ELSE acc.chunks

\* lines 374-403: the paragraph loop
RECURSIVE QuizParagraphLoop(_, _, _, _)
QuizParagraphLoop(paragraphs, i, budget, st) ==
    IF i > Len(paragraphs) THEN st
    ELSE LET para == paragraphs[i]
             para_tokens == estimate_tokens(para)
             flushed == IF st.current_chunk # <<>>
                        THEN Append(st.chunks, Join(<<NL, NL>>, st.current_chunk))
                        ELSE st.chunks
         IN  IF st.current_tokens + para_tokens > budget
             THEN IF para_tokens > budget
                  THEN QuizParagraphLoop(paragraphs, i + 1, budget,
                           [chunks |-> QuizSplitLongParagraph(para, budget, flushed),
                            current_chunk |-> <<>>, current_tokens |-> 0])
                  ELSE QuizParagraphLoop(paragraphs, i + 1, budget,
                           [chunks |-> flushed,
                            current_chunk |-> <<para>>, current_tokens |-> para_tokens])
             ELSE QuizParagraphLoop(paragraphs, i + 1, budget,
                      [chunks |-> st.chunks,
                       current_chunk |-> Append(st.current_chunk, para),
                       current_tokens |-> st.current_tokens + para_tokens])

_chunk_module_content(content, budget) ==
    IF estimate_tokens(content) <= budget THEN <<content>>
    ELSE LET st == QuizParagraphLoop(SplitParagraphs(content), 1, budget,
                       [chunks |-> <<>>, current_chunk |-> <<>>, current_tokens |-> 0])
         IN  IF st.current_chunk # <<>>
             THEN Append(st.chunks, Join(<<NL, NL>>, st.current_chunk))
             ELSE st.chunks

\* adaptive.py lines 68-70: len(text) // 4
_estimate_tokens(s) == Len(s) \div 4

\* adaptive.py lines 52-61: the paragraph loop of AdaptiveQuiz._chunk_content
RECURSIVE AdaptiveParagraphLoop(_, _, _, _)
AdaptiveParagraphLoop(paragraphs, i, budget, st) ==
    IF i > Len(paragraphs) THEN st
    ELSE LET para == paragraphs[i]
             para_tokens == _estimate_tokens(para)
         IN  IF st.current_tokens + para_tokens > budget
             THEN AdaptiveParagraphLoop(paragraphs, i + 1, budget,
                      [chunks |-> IF st.current_chunk # <<>>
                                  THEN Append(st.chunks, Join(<<NL, NL>>, st.current_chunk))
                                  ELSE st.chunks,
                       current_chunk |-> <<para>>, current_tokens |-> para_tokens])
             ELSE AdaptiveParagraphLoop(paragraphs, i + 1, budget,
                      [chunks |-> st.chunks,
                       current_chunk |-> Append(st.current_chunk, para),
                       current_tokens |-> st.current_tokens + para_tokens])

\* AdaptiveQuiz._chunk_content with max_content_tokens = budget
_chunk_content(content, budget) ==
    IF _estimate_tokens(content) <= budget THEN <<content>>
    ELSE LET st == AdaptiveParagraphLoop(SplitParagraphs(content), 1, budget,
                       [chunks |-> <<>>, current_chunk |-> <<>>, current_tokens |-> 0])
         IN  IF st.current_chunk # <<>>
             THEN Append(st.chunks, Join(<<NL, NL>>, st.current_chunk))
             ELSE st.chunks

\* a question object as json.loads returns it (difficulty, which the code never
\* reads, is left out)
JQuestion(q, os, a, ts) ==
    [t |-> "object", question |-> q, options |-> os, answer |-> a, topics |-> ts]

\* `for j, q in enumerate(questions)`: the items the loop visits
EnumerateQuestions(questions) ==
    CASE questions.t = "list" -> Ok(questions.v)
      [] questions.t = "str" -> Ok([i \in 1..Len(questions.v) |-> JStr(<<questions.v[i]>>)])
      [] questions.t = "object" ->
            Ok(SelectSeq(<<[k |-> "question", v |-> questions.question],
                           [k |-> "options", v |-> questions.options],
                           [k |-> "answer", v |-> questions.answer],
                           [k |-> "topics", v |-> questions.topics]>>,
                         LAMBDA f : f.v # JAbsent))
      [] OTHER -> Raise("TypeError")

\* lines 450-453 from position j on: every question gets its id and, when it has
\* none, the module's name as topics; an item that is no dict raises
RECURSIVE IdentifyFrom(_, _, _, _, _)
IdentifyFrom(items, j, i, module_name, done) ==
    IF j > Len(items) THEN Ok(done)
    ELSE LET q == items[j]
         IN  IF ~("t" \in DOMAIN q /\ q.t = "object") THEN Raise("TypeError")
             ELSE IdentifyFrom(items, j + 1, i, module_name,
                      Append(done,
                             [question |-> q.question, options |-> q.options,
                              answer |-> q.answer,
                              topics |-> IF q.topics = JAbsent
                                         THEN JList(<<JStr(module_name)>>) ELSE q.topics,
                              id |-> [chunk |-> i, position |-> j]]))

\* lines 433-459: the body of the loop for chunk i, given what the model did: the
\* questions the chunk adds to all_questions, or the exception that leaves the loop
QuizChunk(response, i, module_name) ==
    LET body ==
          CASE response.kind = "raises" -> Raise("Exception")
            [] response.kind = "none" -> Raise("AttributeError")
            [] response.parsed = DecodeError -> Raise("JSONDecodeError")
            [] OTHER ->
                 LET items == EnumerateQuestions(response.parsed)
                 IN  IF items.exc # "none" THEN items
                     ELSE IdentifyFrom(items.val, 1, i, module_name, <<>>)
    IN  IF body.exc # "none" /\ CatchesException(body.exc) THEN Ok(<<>>) ELSE body

\* mutant of QuestionText: the text is trimmed but its case is kept
QuestionTextCaseSensitive(q) ==
    IF q.question = JAbsent THEN Raise("KeyError")
    ELSE IF q.question.t # "str" THEN Raise("AttributeError")
    ELSE Ok(Strip(q.question.v))

\* q['question'].strip().lower()
QuestionText(q) ==
    IF q.question = JAbsent THEN Raise("KeyError")
    ELSE IF q.question.t # "str" THEN Raise("AttributeError")
    ELSE Ok(Lower(Strip(q.question.v)))

\* lines 462-469 from position k on
RECURSIVE UniqueFrom(_, _, _, _)
UniqueFrom(questions, k, seen_questions, unique) ==
    IF k > Len(questions) THEN Ok(unique)
    ELSE LET q_text == QuestionText(questions[k])
         IN  IF q_text.exc # "none" THEN q_text
             ELSE IF q_text.val \notin seen_questions
             THEN UniqueFrom(questions, k + 1, seen_questions \cup {q_text.val},
                             Append(unique, questions[k]))
             ELSE UniqueFrom(questions, k + 1, seen_questions, unique)

\* lines 461-471: the list returned, or the exception the loop raises
DeduplicateQuestions(questions) == UniqueFrom(questions, 1, {}, <<>>)

\* adaptive.py line 197: q['question'].lower().strip()
AdaptiveQuestionText(q) ==
    IF q.question = JAbsent THEN Raise("KeyError")
    ELSE IF q.question.t # "str" THEN Raise("AttributeError")
    ELSE Ok(Strip(Lower(q.question.v)))

\* adaptive.py lines 196-200 from position k on
RECURSIVE AdaptiveUniqueFrom(_, _, _, _)
AdaptiveUniqueFrom(questions, k, seen, unique) ==
    IF k > Len(questions) THEN Ok(unique)
    ELSE LET q_text == AdaptiveQuestionText(questions[k])
         IN  IF q_text.exc # "none" THEN q_text
             ELSE IF q_text.val \notin seen
             THEN AdaptiveUniqueFrom(questions, k + 1, seen \cup {q_text.val},
                                     Append(unique, questions[k]))
             ELSE AdaptiveUniqueFrom(questions, k + 1, seen, unique)

\* AdaptiveQuiz._deduplicate_questions: the list returned, or the exception raised
_deduplicate_questions(questions) == AdaptiveUniqueFrom(questions, 1, {}, <<>>)

\* generate_quiz up to its first model invocation
GenerateQuiz ==
    /\ quiz_pc = "start"
    /\ content_chunks' = _chunk_module_content(quiz_module.content, max_content_tokens)
    /\ quiz_idx' = 1
    /\ quiz_pc' = "invoke"
    /\ UNCHANGED <<quiz_module, max_content_tokens, all_questions, quiz_log,
                   quiz_outcome, quiz_error, unique_questions, adaptive_unique>>
    /\ UNCHANGED <<vars_chunk, vars_clean, vars_dedup, vars_pipeline,
                   vars_adaptive, vars_upload, vars_parse>>

\* generate_quiz ends with r: the list returned, or the exception it raises
QuizReturn(r) ==
    /\ quiz_pc' = "done"
    /\ quiz_outcome' = IF r.exc = "none" THEN "returned" ELSE "raised"
    /\ quiz_error' = r.exc
    /\ unique_questions' = r.val

\* one iteration of the loop of generate_quiz: the model is invoked on the chunk
\* and does o; after the last chunk the questions are deduplicated and returned
InvokeQuizModel(o) ==
    /\ quiz_pc = "invoke"
    /\ LET body == QuizChunk(o, quiz_idx, quiz_module.name)
           log == Append(quiz_log, [chunk |-> quiz_idx, kind |-> o.kind,
                                    added |-> body.val])
       IN  /\ quiz_log' = log
           /\ IF body.exc # "none"
              THEN /\ QuizReturn(body)
                   /\ UNCHANGED <<quiz_idx, all_questions, adaptive_unique>>
              ELSE /\ all_questions' = all_questions \o body.val
                   /\ IF quiz_idx < Len(content_chunks)
                      THEN /\ quiz_idx' = quiz_idx + 1
                           /\ UNCHANGED <<quiz_pc, quiz_outcome, quiz_error,
                                          unique_questions, adaptive_unique>>
                      ELSE /\ QuizReturn(DeduplicateQuestions(all_questions \o body.val))
                           /\ adaptive_unique' =
                                  _deduplicate_questions(all_questions \o body.val)
                           /\ UNCHANGED quiz_idx
    /\ UNCHANGED <<quiz_module, max_content_tokens, content_chunks>>
    /\ UNCHANGED <<vars_chunk, vars_clean, vars_dedup, vars_pipeline,
                   vars_adaptive, vars_upload, vars_parse>>

(***************************************************************************)
(* AdaptiveQuiz._get_weak_topics and its caller                            *)
(***************************************************************************)

\* an int held by a dict
JInt(n) == [t |-> "int", v |-> n]

\* topic_perf.get(key, 0), topic_perf being a record of JInt and JAbsent
GetCount(topic_perf, key) ==
    IF topic_perf[key] = JAbsent THEN 0 ELSE topic_perf[key].v

\* performance.get(topic, {}): the record of the topic, or the empty dict
TopicPerformance(performance, topic) ==
    IF performance = JAbsent THEN [total_attempts |-> JAbsent, correct_attempts |-> JAbsent]
    ELSE IF topic \notin DOMAIN performance \/ performance[topic] = JAbsent
    THEN [total_attempts |-> JAbsent, correct_attempts |-> JAbsent]
    ELSE performance[topic]

\* mutant of BelowThreshold: the threshold itself counts as weak
AtOrBelowThreshold(correct, total) == 10 * correct <= 6 * total

\* correct / total < 0.6, for total > 0: the float quotient of two ints below
\* 2^50 is under the double 0.6 exactly when 10 * correct < 6 * total
BelowThreshold(correct, total) == 10 * correct < 6 * total

\* lines 77-83: the loop of _get_weak_topics from position i on
RECURSIVE WeakTopicsFrom(_, _, _, _)
WeakTopicsFrom(performance, topics, i, weak) ==
    IF i > Len(topics) THEN weak
    ELSE LET topic_perf == TopicPerformance(performance, topics[i])
             total == GetCount(topic_perf, "total_attempts")
             correct == GetCount(topic_perf, "correct_attempts")
         IN  IF total > 0 /\ BelowThreshold(correct, total)
             THEN WeakTopicsFrom(performance, topics, i + 1, Append(weak, topics[i]))
             ELSE WeakTopicsFrom(performance, topics, i + 1, weak)

\* student_data.get("performance", {}), then the loop
_get_weak_topics(data, topics) == WeakTopicsFrom(data.performance, topics, 1, <<>>)

\* line 104: module.get("topics", [module["name"]])
ModuleTopics(module) ==
    IF module.topics = JAbsent THEN <<module.name>> ELSE module.topics.v

\* lines 104-105 of _generate_quiz_instructions
CallGetWeakTopics ==
    /\ weak_pc = "call"
    /\ module_topics' = ModuleTopics(adaptive_module)
    /\ weak_topics' = _get_weak_topics(student_data, ModuleTopics(adaptive_module))
    /\ weak_pc' = "returned"
    /\ UNCHANGED <<student_data, adaptive_module>>
    /\ UNCHANGED <<vars_chunk, vars_clean, vars_dedup, vars_pipeline, vars_quiz,
                   vars_upload, vars_parse>>

(***************************************************************************)
(* Specification SpecChunk: chunk_content applied to every bounded text.   *)
(***************************************************************************)
TextAlphabet == {"a", ".", " ", "\n"}

\* paragraphs of 0, 0, 0 (a sentence), 1, 2 (two sentences) and 2 (one sentence)
\* estimated tokens
ParagraphVocabulary ==
    { <<>>,
      <<"a", "a">>,
      <<"a", "a", ".">>,
      <<"a", "a", "a", "a">>,
      <<"a", "a", "a", ".", " ", "a", "a", "a", ".">>,
      <<"a", "a", "a", "a", "a", "a", "a", "a">> }

\* All sequences over S of length 1..n.
SeqsUpTo(S, n) == UNION {[1..k -> S] : k \in 1..n}

\* every short text over the alphabet, and every text of a few known paragraphs
Texts ==
    StringsUpTo(TextAlphabet, MaxTextLen)
    \cup {Join(<<NL, NL>>, ps) : ps \in SeqsUpTo(ParagraphVocabulary, MaxParas)}

\* no call of chunk_content is under way
IdleChunk ==
    /\ text = <<>> /\ max_tokens = 0 /\ max_chunks = 0
    /\ chunks = <<>> /\ chunk_pc = "idle"
    /\ quiz_chunks = <<>> /\ adaptive_chunks = <<>>

\* no call of _clean_json_response is under way
IdleClean ==
    /\ raw_response = <<>> /\ cleaned_once = <<>>
    /\ cleaned = <<>> /\ clean_pc = "idle"
    /\ extracted = <<>> /\ repaired_text = <<>>

\* no call of _deduplicate_modules is under way
IdleDedup ==
    /\ modules_in = <<>> /\ modules_out = <<>> /\ dedup_pc = "idle"
    /\ modules_again = <<>> /\ split = 0 /\ part_outputs = <<>> /\ parts_result = <<>>

\* no run of process_document is under way
IdlePipeline ==
    /\ doc = [kind |-> "missing", content |-> <<>>]
    /\ num_parts = 1 /\ max_chunk_size = 0 /\ chunk_limit = 0
    /\ pc = "idle"
    /\ content_parts = <<>> /\ part_idx = 0 /\ part_chunks = <<>> /\ chunk_idx = 0
    /\ all_modules = <<>> /\ parts_modules = <<>> /\ graph_calls = <<>>
    /\ outcome = "none" /\ result = <<>>

\* no call of generate_quiz is under way
IdleQuiz ==
    /\ quiz_module = [name |-> <<>>, summary |-> <<>>, content |-> <<>>]
    /\ max_content_tokens = 0 /\ quiz_pc = "idle"
    /\ content_chunks = <<>> /\ quiz_idx = 0 /\ all_questions = <<>> /\ quiz_log = <<>>
    /\ quiz_outcome = "none" /\ quiz_error = "none" /\ unique_questions = <<>>
    /\ adaptive_unique = Ok(<<>>)

\* no call of _generate_quiz_instructions is under way
IdleAdaptive ==
    /\ student_data = [performance |-> JAbsent]
    /\ adaptive_module = [name |-> "", topics |-> JAbsent]
    /\ module_topics = <<>> /\ weak_topics = <<>> /\ weak_pc = "idle"

\* no request is being handled by CourseUploadView.post
IdleUpload ==
    /\ upload_pc = "idle" /\ temp_file = "none" /\ modules_data = 0 /\ lesson_idx = 0
    /\ database = [course |-> 0, lessons |-> 0, quizzes |-> 0]
    /\ upload_log = <<>> /\ http_response = "none"

\* no call of parse_document is under way
IdleParse ==
    /\ parse_file = [kind |-> "missing", content |-> <<>>]
    /\ parse_pc = "idle" /\ parse_outcome = Ok(<<>>)

InitChunk ==
    /\ IdleClean /\ IdleDedup /\ IdlePipeline /\ IdleQuiz /\ IdleAdaptive /\ IdleUpload /\ IdleParse
    /\ text \in Texts
    /\ max_tokens \in 0..MaxBudget
    /\ max_chunks \in 0..MaxChunkLimit
    /\ chunks = <<>> /\ quiz_chunks = <<>> /\ adaptive_chunks = <<>>
    /\ chunk_pc = "call"

CallChunkContent ==
    /\ chunk_pc = "call"
    /\ chunks' = chunk_content(text, max_tokens, max_chunks)
    /\ quiz_chunks' = _chunk_module_content(text, max_tokens)
    /\ adaptive_chunks' = _chunk_content(text, max_tokens)
    /\ chunk_pc' = "returned"
    /\ UNCHANGED <<text, max_tokens, max_chunks>>
    /\ UNCHANGED <<vars_clean, vars_dedup, vars_pipeline, vars_quiz,
                   vars_adaptive, vars_upload, vars_parse>>

NextChunk == CallChunkContent

SpecChunk == InitChunk /\ [][NextChunk]_vars

\* no paragraph of the text alone exceeds the budget
NoOversizedSection ==
    \A i \in DOMAIN SplitParagraphs(text) :
        estimate_tokens(SplitParagraphs(text)[i]) <= max_tokens

\* C1 as stated: without max_chunks, the concatenation of the returned chunks
\* is the input text.
C1_ConcatIsText ==
    (chunk_pc = "returned" /\ max_chunks = 0) => Concat(chunks) = text

\* C1 amended: without max_chunks and when no paragraph alone exceeds the
\* budget, the returned chunks joined by "\n\n" are the input text.
C1_JoinIsText ==
    (chunk_pc = "returned" /\ max_chunks = 0 /\ NoOversizedSection)
        => Join(<<NL, NL>>, chunks) = text

\* C1 witness: a text without oversized paragraph returned as several chunks,
\* one of them holding two paragraphs.
C1_Witness ==
    /\ chunk_pc = "returned" /\ max_chunks = 0 /\ NoOversizedSection
    /\ Len(chunks) >= 2
    /\ Len(SplitParagraphs(text)) > Len(chunks)

\* C2: a text whose estimate is within the budget is returned as the single
\* chunk [text], whatever its number of paragraph breaks.
C2_SmallTextSingleChunk ==
    (chunk_pc = "returned" /\ max_chunks = 0 /\ estimate_tokens(text) <= max_tokens)
        => chunks = <<text>>

\* C2 witness: a text within the budget that holds two paragraph breaks.
C2_Witness ==
    /\ chunk_pc = "returned" /\ max_chunks = 0
    /\ estimate_tokens(text) <= max_tokens
    /\ Len(SplitParagraphs(text)) >= 3
    /\ chunks = <<text>>


(***************************************************************************)
(* Specification SpecClean: _clean_json_response applied to every bounded  *)
(* model response, then applied again to its own result.                   *)
(***************************************************************************)
RawAlphabet == {"[", "]", "{", "}", ",", "a", " ", "\n", QUOTE, BACKSLASH, BACKTICK}

RawPieces ==
    { <<BACKTICK, BACKTICK, BACKTICK>>,
      <<BACKTICK, BACKTICK, BACKTICK, "J", "s", "o", "n">>,
      <<BACKSLASH, QUOTE>>,
      <<"[">>, <<"]">>, <<"a">>, <<",">> }

RawTexts ==
    StringsUpTo(RawAlphabet, MaxRawLen)
    \cup {Concat(ps) : ps \in SeqsUpTo(RawPieces, MaxRawPieces)}

InitClean ==
    /\ IdleChunk /\ IdleDedup /\ IdlePipeline /\ IdleQuiz /\ IdleAdaptive /\ IdleUpload /\ IdleParse
    /\ raw_response \in RawTexts
    /\ cleaned_once = <<>>
    /\ cleaned = <<>>
    /\ extracted = <<>> /\ repaired_text = <<>>
    /\ clean_pc = "call"

CallCleanJsonResponse ==
    /\ clean_pc = "call"
    /\ cleaned' = _clean_json_response(raw_response)
    /\ cleaned_once' = _clean_json_response(raw_response)
    /\ extracted' = _extract_json(raw_response)
    /\ repaired_text' = RepairedText(raw_response)
    /\ clean_pc' = "returned"
    /\ UNCHANGED raw_response
    /\ UNCHANGED <<vars_chunk, vars_dedup, vars_pipeline, vars_quiz,
                   vars_adaptive, vars_upload, vars_parse>>

\* the repair applied to its own result
CallCleanJsonResponseAgain ==
    /\ clean_pc = "returned"
    /\ cleaned' = _clean_json_response(cleaned)
    /\ clean_pc' = "repeated"
    /\ UNCHANGED <<raw_response, cleaned_once, extracted, repaired_text>>
    /\ UNCHANGED <<vars_chunk, vars_dedup, vars_pipeline, vars_quiz,
                   vars_adaptive, vars_upload, vars_parse>>

NextClean == CallCleanJsonResponse \/ CallCleanJsonResponseAgain

SpecClean == InitClean /\ [][NextClean]_vars

\* C3 as stated: the repair applied to its own result returns that result.
C3_CleanIdempotent ==
    clean_pc = "repeated" => cleaned = cleaned_once


(***************************************************************************)
(* Specification SpecDedup: _deduplicate_modules applied to every bounded  *)
(* list of modules.                                                        *)
(***************************************************************************)
ModuleNames == {<<"A">>, <<"a">>, <<"B">>}
\* what a module holds besides its name: without prerequisites, with one, and
\* with two of which one is shared
ModuleTexts ==
    { [summary |-> <<"s">>, content |-> <<"x">>, prerequisites |-> <<>>],
      [summary |-> <<"t">>, content |-> <<"y">>, prerequisites |-> <<<<"p">>>>],
      [summary |-> <<"s">>, content |-> <<"y">>, prerequisites |-> <<<<"q">>, <<"p">>>>] }

ModuleUniverse ==
    { [name |-> n, summary |-> t.summary, content |-> t.content,
       prerequisites |-> t.prerequisites]
        : n \in ModuleNames, t \in ModuleTexts }

InitDedup ==
    /\ IdleChunk /\ IdleClean /\ IdlePipeline /\ IdleQuiz /\ IdleAdaptive /\ IdleUpload /\ IdleParse
    /\ modules_in \in {<<>>} \cup SeqsUpTo(ModuleUniverse, MaxModules)
    /\ split \in 0..Len(modules_in)
    /\ modules_out = <<>> /\ modules_again = <<>>
    /\ part_outputs = <<>> /\ parts_result = <<>>
    /\ dedup_pc = "call"

CallDeduplicateModules ==
    /\ dedup_pc = "call"
    /\ modules_out' \in _deduplicate_modules(modules_in)
    /\ dedup_pc' = "returned"
    /\ UNCHANGED <<modules_in, modules_again, split, part_outputs, parts_result>>
    /\ UNCHANGED <<vars_chunk, vars_clean, vars_pipeline, vars_quiz,
                   vars_adaptive, vars_upload, vars_parse>>

\* _deduplicate_modules called on its own result
CallDeduplicateModulesAgain ==
    /\ dedup_pc = "returned"
    /\ modules_again' \in _deduplicate_modules(modules_out)
    /\ dedup_pc' = "again"
    /\ UNCHANGED <<modules_in, modules_out, split, part_outputs, parts_result>>
    /\ UNCHANGED <<vars_chunk, vars_clean, vars_pipeline, vars_quiz,
                   vars_adaptive, vars_upload, vars_parse>>

\* process_document_parts on two parts whose chunks gave modules_in[1..split] and
\* the rest: each create_prerequisite_graph call returns its modules deduplicated
\* (line 284), and the outputs put end to end are deduplicated again (line 541)
CallProcessDocumentParts ==
    /\ dedup_pc = "again"
    /\ \E first \in _deduplicate_modules(SubSeq(modules_in, 1, split)),
          second \in _deduplicate_modules(SubSeq(modules_in, split + 1, Len(modules_in))) :
          /\ part_outputs' = <<first, second>>
          /\ parts_result' \in _deduplicate_modules(first \o second)
    /\ dedup_pc' = "parts"
    /\ UNCHANGED <<modules_in, modules_out, modules_again, split>>
    /\ UNCHANGED <<vars_chunk, vars_clean, vars_pipeline, vars_quiz,
                   vars_adaptive, vars_upload, vars_parse>>

NextDedup ==
    \/ CallDeduplicateModules
    \/ CallDeduplicateModulesAgain
    \/ CallProcessDocumentParts

SpecDedup == InitDedup /\ [][NextDedup]_vars

\* the positions of modules_in whose lower-cased name occurs at no earlier position
FirstOccurrences ==
    {i \in DOMAIN modules_in :
        \A j \in 1..(i - 1) : Lower(modules_in[j].name) # Lower(modules_in[i].name)}

\* the k-th first occurrence
KthFirstOccurrence(k) ==
    CHOOSE i \in FirstOccurrences : Cardinality({j \in FirstOccurrences : j < i}) = k - 1

\* the contents of the occurrences of the key of position i, in input order
ContentsOfKey(i) ==
    LET same == SelectSeq([j \in DOMAIN modules_in |-> j],
                          LAMBDA j : Lower(modules_in[j].name) = Lower(modules_in[i].name))
    IN  [k \in DOMAIN same |-> modules_in[same[k]].content]

\* C4: the result holds one record per distinct lower-cased name, in order of
\* first occurrence, with the first occurrence's name and summary and with the
\* contents of all occurrences of the key joined by "\n\n" in input order.
C4_DedupIsLeftFold ==
    dedup_pc = "returned" =>
        /\ Len(modules_out) = Cardinality(FirstOccurrences)
        /\ \A k \in DOMAIN modules_out :
              LET i == KthFirstOccurrence(k)
              IN  /\ modules_out[k].name = modules_in[i].name
                  /\ modules_out[k].summary = modules_in[i].summary
                  /\ modules_out[k].content = Join(<<NL, NL>>, ContentsOfKey(i))

\* C4 witness: [{A,x},{B,..},{a,y}] returned as the module A with content
\* "x\n\ny" followed by the module B.
C4_Witness ==
    /\ dedup_pc = "returned"
    /\ Len(modules_in) = 3 /\ Len(modules_out) = 2
    /\ modules_in[1].name = <<"A">> /\ modules_in[1].content = <<"x">>
    /\ modules_in[2].name = <<"B">>
    /\ modules_in[3].name = <<"a">> /\ modules_in[3].content = <<"y">>
    /\ modules_out[1].name = <<"A">>
    /\ modules_out[1].content = <<"x", "\n", "\n", "y">>
    /\ modules_out[2].name = <<"B">>


(***************************************************************************)
(* Specification SpecQuiz: a call of generate_quiz on a module of one or   *)
(* two chunks, the model doing anything on each chunk.                     *)
(***************************************************************************)
QuizModules ==
    { [name |-> <<"M">>, summary |-> <<"s">>, content |-> c]
        : c \in { <<"a", "a", "a", "a">>,
                  <<"a", "a", "a", "a", "\n", "\n", "a", "a", "a", "a">> } }

\* the items a response may hold: a question without topics; the same question in
\* another case, padded, with topics; a question with neither options nor answer;
\* an object without question; an object whose question is no string; a number
QuestionElements ==
    { JQuestion(JStr(<<"Q", "1">>), JList(<<JStr(<<"a">>)>>), JStr(<<"a">>), JAbsent),
      JQuestion(JStr(<<" ", "q", "1">>), JList(<<JStr(<<"a">>), JStr(<<"b">>)>>),
                JStr(<<"b">>), JList(<<JStr(<<"t">>)>>)),
      JQuestion(JStr(<<"Q", "2">>), JAbsent, JAbsent, JAbsent),
      JQuestion(JAbsent, JList(<<JStr(<<"a">>)>>), JStr(<<"a">>), JAbsent),
      JQuestion(JOther, JList(<<JStr(<<"a">>)>>), JStr(<<"a">>), JAbsent),
      JOther }

QuestionArrays ==
    {JList(xs) : xs \in {<<>>} \cup SeqsUpTo(QuestionElements, MaxElements)}

\* what the model may do on one chunk: raise, return None, or answer a text; a
\* text is given by what json.loads makes of its array span (or of the text
\* without its fences): an array, a single object, a number, or a decode error
QuizOutcomes ==
    { [kind |-> "raises"], [kind |-> "none"] }
    \cup { [kind |-> "text", parsed |-> v]
             : v \in QuestionArrays
                     \cup { JQuestion(JStr(<<"Q", "1">>), JAbsent, JAbsent, JAbsent),
                            JOther, DecodeError } }

InitQuiz ==
    /\ IdleChunk /\ IdleClean /\ IdleDedup /\ IdlePipeline /\ IdleAdaptive
    /\ IdleUpload /\ IdleParse
    /\ quiz_module \in QuizModules
    /\ max_content_tokens = 1
    /\ quiz_pc = "start"
    /\ content_chunks = <<>> /\ quiz_idx = 0 /\ all_questions = <<>> /\ quiz_log = <<>>
    /\ quiz_outcome = "none" /\ quiz_error = "none" /\ unique_questions = <<>>
    /\ adaptive_unique = Ok(<<>>)

NextQuiz ==
    \/ GenerateQuiz
    \/ \E o \in QuizOutcomes : InvokeQuizModel(o)

SpecQuiz == InitQuiz /\ [][NextQuiz]_vars

\* C5 as stated: generate_quiz never raises, and returns a list whatever the
\* model did on each chunk.
C5_QuizNeverRaises ==
    quiz_pc = "done" => quiz_outcome = "returned"

(***************************************************************************)
(* Specification Spec: a run of process_document on every bounded document,*)
(* the model doing anything on each chunk.                                 *)
(***************************************************************************)
A4 == <<"a", "a", "a", "a">>

\* the files: missing, of an unsupported type, failing extraction, or parsed to
\* a text of zero, one or two paragraphs, or of a single character
Documents ==
    { [kind |-> k, content |-> <<>>] : k \in {"missing", "unsupported", "corrupt"} }
    \cup { [kind |-> "ok", content |-> c]
             : c \in {<<>>, <<"a">>, A4, A4 \o <<NL, NL>> \o A4} }

\* the objects a response may hold: a module with padded fields that lists one
\* prerequisite twice; a module with
\* neither summary nor prerequisites; an object without content; an object
\* without name; an object whose name and content are blank; an object whose
\* name is no string
ModuleElements ==
    { JModule(JStr(<<" ", "A">>), JStr(<<"s">>), JStr(<<"x">>),
              JList(<<JStr(<<" ", "p">>), JStr(<<"p">>)>>)),
      JModule(JStr(<<"a">>), JAbsent, JStr(<<"y", " ">>), JAbsent),
      JModule(JStr(<<"a">>), JStr(<<"s">>), JAbsent, JList(<<JStr(<<"z">>)>>)),
      JModule(JAbsent, JStr(<<"s">>), JStr(<<"w">>), JList(<<JStr(<<"z">>)>>)),
      JModule(JStr(<<" ">>), JStr(<<"s">>), JStr(<<" ">>), JAbsent),
      JModule(JOther, JAbsent, JStr(<<"x">>), JAbsent) }

ModuleArrays == {JList(xs) : xs \in {<<>>} \cup SeqsUpTo(ModuleElements, MaxElements)}

\* what json.loads may give on the cleaned text: an array, a single object, a
\* number, or a decode error
ParsedValues ==
    ModuleArrays
    \cup {JModule(JStr(<<"A">>), JAbsent, JStr(<<"x">>), JAbsent), JOther}

\* what the model may do on one chunk: raise, answer nothing, or answer a text;
\* a text is given by what json.loads makes of it once cleaned (direct) and, when
\* that is a decode error, once deep-repaired (repaired)
ModelOutcomes ==
    { [kind |-> "raises"], [kind |-> "empty"] }
    \cup { [kind |-> "text", direct |-> v, repaired |-> DecodeError] : v \in ParsedValues }
    \cup { [kind |-> "text", direct |-> DecodeError, repaired |-> w]
             : w \in ModuleArrays \cup {DecodeError} }

Init ==
    /\ IdleChunk /\ IdleClean /\ IdleDedup /\ IdleQuiz /\ IdleAdaptive /\ IdleUpload /\ IdleParse
    /\ doc \in Documents
    /\ num_parts \in 1..MaxParts
    /\ max_chunk_size = 1
    /\ chunk_limit \in {0, 1}
    /\ pc = "start"
    /\ content_parts = <<>> /\ part_idx = 0 /\ part_chunks = <<>> /\ chunk_idx = 0
    /\ all_modules = <<>> /\ parts_modules = <<>> /\ graph_calls = <<>>
    /\ outcome = "none" /\ result = <<>>

\* one iteration of the loop of create_prerequisite_graph: the model is invoked on
\* the chunk and does o; after the last chunk the call returns to its caller
InvokeModel ==
    /\ pc = "graph"
    /\ \E o \in ModelOutcomes :
        LET body == ProcessChunk(o)
        IN  IF body.exc # "none"
            THEN \* the exception leaves the loop and create_prerequisite_graph
                 LeaveGraph(body, Invoked(chunk_idx, o, body, FALSE))
            ELSE IF NextChunkIndex(chunk_idx, o) <= Len(part_chunks)
            THEN /\ all_modules' = Extend(all_modules, body.val)
                 /\ chunk_idx' = NextChunkIndex(chunk_idx, o)
                 /\ graph_calls' = Invoked(chunk_idx, o, body, FALSE)
                 /\ UNCHANGED <<pc, part_idx, part_chunks, parts_modules, outcome, result>>
            ELSE \E final_modules \in _deduplicate_modules(Extend(all_modules, body.val)) :
                     LeaveGraph(Ok(final_modules), Invoked(chunk_idx, o, body, TRUE))
    /\ UNCHANGED <<doc, num_parts, max_chunk_size, chunk_limit, content_parts>>
    /\ UNCHANGED <<vars_chunk, vars_clean, vars_dedup, vars_quiz,
                   vars_adaptive, vars_upload, vars_parse>>

Next ==
    \/ ProcessDocument
    \/ InvokeModel

Spec == Init /\ [][Next]_vars

\* the file exists, is of a supported type and parses to a non-empty text
DocUsable == doc.kind = "ok" /\ doc.content # <<>>

\* the model has been invoked in this run, or is about to be
ModelReached ==
    pc = "graph" \/ \E k \in DOMAIN graph_calls : graph_calls[k].invoked # <<>>

C7_NoInvocationBeforeParse == ModelReached => DocUsable

\* C7 witness: a run in several parts on an unusable document that ended without
\* any create_prerequisite_graph call.
C7_Witness ==
    /\ pc = "done" /\ ~DocUsable /\ num_parts > 1 /\ graph_calls = <<>>

\* a list of module records whose fields are str and lists of str
IsModuleList(ms) ==
    \A i \in DOMAIN ms :
        /\ DOMAIN ms[i] = {"name", "summary", "content", "prerequisites"}
        /\ \A f \in {"name", "summary", "content"} :
              \A j \in DOMAIN ms[i][f] : ms[i][f][j] \in STRING
        /\ \A j \in DOMAIN ms[i].prerequisites :
              \A k \in DOMAIN ms[i].prerequisites[j] :
                  ms[i].prerequisites[j][k] \in STRING

\* the model invocations of the run so far, and the chunks of the calls entered
InvocationsDone ==
    LET RECURSIVE Sum(_)
        Sum(k) == IF k = 0 THEN 0 ELSE Len(graph_calls[k].invoked) + Sum(k - 1)
    IN  Sum(Len(graph_calls))

\* C8: once the document parsed to a non-empty text, the run never raises: it
\* can always take its next step until it has returned a list of modules, each
\* step being one of a bounded number of model invocations.
C8_NeverRaisesAfterParse ==
    (DocUsable /\ pc # "start") =>
        /\ outcome # "raised"
        /\ pc = "done" => outcome = "returned" /\ IsModuleList(result)
        /\ pc # "done" => /\ pc = "graph"
                          /\ chunk_idx \in 1..Len(part_chunks)
                          /\ part_idx \in 1..Len(content_parts)
                          /\ ENABLED Next

\* C8 witness: a run on a usable document that returned although the model
\* raised on one chunk of a call and answered a text on another.
C8_Witness ==
    /\ pc = "done" /\ DocUsable /\ outcome = "returned"
    /\ \E k \in DOMAIN graph_calls :
          \E i, j \in DOMAIN graph_calls[k].invoked :
              /\ graph_calls[k].invoked[i].kind = "raises"
              /\ graph_calls[k].invoked[j].kind = "text"

\* C9: in every create_prerequisite_graph call the chunks are invoked once each
\* in ascending order, whatever the model did on the chunks before, and a call
\* that returned has invoked each of its chunks.
C9_OneInvocationPerChunk ==
    \A k \in DOMAIN graph_calls :
        LET call == graph_calls[k]
        IN  /\ \A i \in DOMAIN call.invoked : call.invoked[i].chunk = i
            /\ Len(call.invoked) <= call.chunks
            /\ call.returned => Len(call.invoked) = call.chunks
            /\ (k < Len(graph_calls) \/ pc = "done") => call.returned

\* C9 witness: a call on two chunks that returned after the model raised on the
\* first chunk and was invoked on the second.
C9_Witness ==
    \E k \in DOMAIN graph_calls :
        /\ graph_calls[k].returned /\ graph_calls[k].chunks = 2
        /\ graph_calls[k].invoked[1].kind = "raises"
        /\ graph_calls[k].invoked[2].chunk = 2

\* C10 as stated: every module returned has a non-empty name and a non-empty
\* content.
C10_NonEmptyNameAndContent ==
    (pc = "done" /\ outcome = "returned") =>
        \A i \in DOMAIN result : result[i].name # <<>> /\ result[i].content # <<>>

\* the value the validation loop of a text response runs on: what json.loads
\* made of the cleaned text or, after a decode error, of the deep-repaired text
ValidatedValue(response) ==
    IF response.direct # DecodeError THEN response.direct ELSE response.repaired

\* an object with both keys whose fields, where present, are str and lists of str
WellFormedModule(mod) ==
    /\ mod.t = "object"
    /\ mod.name.t = "str" /\ mod.content.t = "str"
    /\ mod.summary.t \in {"str", "absent"}
    /\ \/ mod.prerequisites = JAbsent
       \/ /\ mod.prerequisites.t = "list"
          /\ \A j \in DOMAIN mod.prerequisites.v : mod.prerequisites.v[j].t = "str"

\* an object without 'name' or without 'content'
LacksRequiredKey(mod) ==
    mod.t = "object" /\ (mod.name = JAbsent \/ mod.content = JAbsent)

\* the record expected for a well-formed object: its fields trimmed
TrimmedModule(mod) ==
    [name |-> Strip(mod.name.v),
     summary |-> IF mod.summary = JAbsent THEN <<>> ELSE Strip(mod.summary.v),
     content |-> Strip(mod.content.v),
     prerequisites |-> IF mod.prerequisites = JAbsent THEN <<>>
                       ELSE [j \in DOMAIN mod.prerequisites.v |->
                                Strip(mod.prerequisites.v[j].v)]]

\* the records expected of the well-formed objects of items, in order
RECURSIVE KeptModules(_)
KeptModules(items) ==
    IF items = <<>> THEN <<>>
    ELSE (IF LacksRequiredKey(Head(items)) THEN <<>> ELSE <<TrimmedModule(Head(items))>>)
         \o KeptModules(Tail(items))

\* a text response that is an array of objects, each lacking a required key or
\* well-formed
DroppingCase(response) ==
    /\ response.kind = "text"
    /\ ValidatedValue(response).t = "list"
    /\ \A i \in DOMAIN ValidatedValue(response).v :
          \/ LacksRequiredKey(ValidatedValue(response).v[i])
          \/ WellFormedModule(ValidatedValue(response).v[i])

\* the marks carried only by the objects of ModuleElements that lack a key
CarriesDroppedMark(m) ==
    \/ m.content = <<"w">> \/ IsSubstring(<<"w">>, m.content)
    \/ \E j \in DOMAIN m.prerequisites : m.prerequisites[j] = <<"z">>

\* C11: on the direct-parse path and on the deep-repair path alike, a response
\* made of well-formed objects and of objects lacking 'name' or 'content' adds
\* exactly the well-formed ones, trimmed and in order; and nothing of an object
\* lacking a key (its content, its prerequisites) is found in the modules
\* collected or returned.
C11_ObjectsLackingKeyDropped ==
    /\ \A k \in DOMAIN graph_calls :
          DroppingCase(graph_calls[k].last.response) =>
              graph_calls[k].last.added =
                  KeptModules(ValidatedValue(graph_calls[k].last.response).v)
    /\ \A ms \in {all_modules, parts_modules, result} :
          \A i \in DOMAIN ms : ~CarriesDroppedMark(ms[i])

\* C11 witness: a run in two parts that ended; the response of the first part
\* parsed directly and that of the second after deep repair, each holding an
\* object without content next to a well-formed one, which alone was added.
C11_Witness ==
    /\ pc = "done" /\ Len(graph_calls) = 2 /\ result # <<>>
    /\ graph_calls[1].last.response.kind = "text"
    /\ graph_calls[2].last.response.kind = "text"
    /\ graph_calls[1].last.response.direct # DecodeError
    /\ graph_calls[2].last.response.direct = DecodeError
    /\ \A k \in 1..2 :
          LET items == ValidatedValue(graph_calls[k].last.response)
          IN  /\ items.t = "list" /\ Len(items.v) = 2
              /\ \E i \in 1..2 : items.v[i].t = "object" /\ items.v[i].content = JAbsent
              /\ Len(graph_calls[k].last.added) = 1

\* C12 as stated: every question returned by generate_quiz has at least one
\* option and an answer.
C12_QuestionsHaveOptionsAndAnswer ==
    (quiz_pc = "done" /\ quiz_outcome = "returned") =>
        \A i \in DOMAIN unique_questions :
            /\ unique_questions[i].options.t = "list"
            /\ Len(unique_questions[i].options.v) >= 1
            /\ unique_questions[i].answer # JAbsent

\* C13: when max_chunks is given and the natural chunks are n > max_chunks, the
\* chunks returned are at most max_chunks; with size the least integer such
\* that size * max_chunks >= n, chunk j is the "\n\n"-join of the natural
\* chunks (j-1)*size+1 .. j*size (to n for the last), all of them being covered;
\* five natural chunks under max_chunks = 2 give exactly two chunks.
C13_CoalescedRuns ==
    LET natural == NaturalChunks(text, max_tokens)
        n == Len(natural)
    IN  (chunk_pc = "returned" /\ max_chunks >= 1 /\ n > max_chunks) =>
            LET size == CHOOSE k \in 1..n :
                            k * max_chunks >= n /\ (k - 1) * max_chunks < n
            IN  /\ Len(chunks) <= max_chunks
                /\ (Len(chunks) - 1) * size < n /\ n <= Len(chunks) * size
                /\ \A j \in DOMAIN chunks :
                      chunks[j] =
                          Join(<<NL, NL>>,
                               SubSeq(natural, (j - 1) * size + 1,
                                      IF j * size < n THEN j * size ELSE n))
                /\ (n = 5 /\ max_chunks = 2) => Len(chunks) = 2

\* C13 witness: a text of five natural chunks returned as two chunks under
\* max_chunks = 2.
C13_Witness ==
    /\ chunk_pc = "returned" /\ max_chunks = 2
    /\ Len(NaturalChunks(text, max_tokens)) = 5
    /\ Len(chunks) = 2

\* C14 as stated: chunk_content on the empty text returns the empty sequence.
C14_EmptyTextNoChunks ==
    (chunk_pc = "returned" /\ text = <<>>) => chunks = <<>>

\* the sum of the estimates of the pieces
RECURSIVE SumOfEstimates(_)
SumOfEstimates(pieces) ==
    IF pieces = <<>> THEN 0
    ELSE estimate_tokens(Head(pieces)) + SumOfEstimates(Tail(pieces))

\* the chunk is one sentence of one paragraph, and exceeds the budget
SingleOversizedSentence(chunk, budget) ==
    /\ Len(SplitParagraphs(chunk)) = 1
    /\ Len(SplitSentences(chunk)) = 1
    /\ estimate_tokens(chunk) > budget

\* C15 as stated: without max_chunks, the estimate of every chunk as returned is
\* within the budget, unless the chunk is one single sentence that alone exceeds
\* the budget.
C15_ChunkEstimateWithinBudget ==
    (chunk_pc = "returned" /\ max_chunks = 0) =>
        \A j \in DOMAIN chunks :
            \/ estimate_tokens(chunks[j]) <= max_tokens
            \/ SingleOversizedSentence(chunks[j], max_tokens)

\* C15 amended: without max_chunks, the estimates of the paragraphs joined in a
\* chunk (of the sentences joined in it, for a chunk cut out of an oversized
\* paragraph) sum to at most the budget, unless the chunk is one single sentence
\* that alone exceeds the budget.
C15_PieceEstimatesWithinBudget ==
    (chunk_pc = "returned" /\ max_chunks = 0) =>
        \A j \in DOMAIN chunks :
            \/ SumOfEstimates(SplitParagraphs(chunks[j])) <= max_tokens
            \/ /\ Len(SplitParagraphs(chunks[j])) = 1
               /\ SumOfEstimates(SplitSentences(chunks[j])) <= max_tokens
            \/ SingleOversizedSentence(chunks[j], max_tokens)

\* C15 witness: a returned chunk of two paragraphs whose estimates sum to within
\* the budget while the estimate of the chunk exceeds it, next to a chunk that is
\* one oversized sentence.
C15_Witness ==
    /\ chunk_pc = "returned" /\ max_chunks = 0 /\ max_tokens = 1
    /\ \E j \in DOMAIN chunks :
          /\ Len(SplitParagraphs(chunks[j])) = 2
          /\ SumOfEstimates(SplitParagraphs(chunks[j])) <= max_tokens
          /\ estimate_tokens(chunks[j]) > max_tokens
    /\ \E j \in DOMAIN chunks : SingleOversizedSentence(chunks[j], max_tokens)

(***************************************************************************)
(* Specification SpecAdaptive: the weak topics of every bounded student     *)
(* record and module.                                                      *)
(***************************************************************************)
\* the topics students have records for, and the topics modules may list
RecordedTopics == {"X", "Y"}
ListedTopics == {"X", "Y", "Z"}

\* a topic's record: attempts with no more correct ones than attempts, or a
\* record without correct_attempts
PerformanceRecords ==
    { [total_attempts |-> JInt(tc[1]), correct_attempts |-> JInt(tc[2])]
        : tc \in {x \in (0..MaxAttempts) \X (0..MaxAttempts) : x[2] <= x[1]} }
    \cup { [total_attempts |-> JInt(t), correct_attempts |-> JAbsent] : t \in {0, MaxAttempts} }

Performances ==
    {JAbsent} \cup [RecordedTopics -> PerformanceRecords \cup {JAbsent}]

AdaptiveModules ==
    { [name |-> n, topics |-> JAbsent] : n \in ListedTopics }
    \cup { [name |-> "M", topics |-> JList(ts)]
             : ts \in {<<>>} \cup SeqsUpTo(ListedTopics, MaxTopics) }

InitAdaptive ==
    /\ IdleChunk /\ IdleClean /\ IdleDedup /\ IdlePipeline /\ IdleQuiz /\ IdleUpload /\ IdleParse
    /\ student_data \in {[performance |-> pf] : pf \in Performances}
    /\ adaptive_module \in AdaptiveModules
    /\ module_topics = <<>> /\ weak_topics = <<>> /\ weak_pc = "call"

NextAdaptive == CallGetWeakTopics

SpecAdaptive == InitAdaptive /\ [][NextAdaptive]_vars

\* the record of the topic shows attempts, fewer than 60% of them correct
IsWeak(topic) ==
    /\ student_data.performance # JAbsent
    /\ topic \in DOMAIN student_data.performance
    /\ student_data.performance[topic] # JAbsent
    /\ LET rec == student_data.performance[topic]
           total == rec.total_attempts.v
           correct == IF rec.correct_attempts = JAbsent THEN 0 ELSE rec.correct_attempts.v
       IN  total > 0 /\ 10 * correct < 6 * total

\* C16: the weak topics returned are the topics of the module's topic list, in
\* its order, whose record shows attempts of which fewer than 60% are correct; a
\* topic at exactly 60%, a topic without attempts, a topic without record and a
\* topic the module does not list are not returned.
C16_WeakTopics ==
    weak_pc = "returned" =>
        /\ weak_topics = SelectSeq(module_topics, IsWeak)
        /\ \A i \in DOMAIN weak_topics :
              /\ \E j \in DOMAIN module_topics : module_topics[j] = weak_topics[i]
              /\ weak_topics[i] \in RecordedTopics
              /\ LET rec == student_data.performance[weak_topics[i]]
                 IN  /\ rec.total_attempts.v > 0
                     /\ ~(rec.total_attempts.v = 5 /\ rec.correct_attempts = JInt(3))

\* C16 witness: a module listing Y before X and Z; X is at 2 of 5 and returned, Y
\* at exactly 3 of 5 and not returned.
C16_Witness ==
    /\ weak_pc = "returned"
    /\ module_topics = <<"Y", "X", "Z">>
    /\ student_data.performance # JAbsent
    /\ student_data.performance["X"] = [total_attempts |-> JInt(5), correct_attempts |-> JInt(2)]
    /\ student_data.performance["Y"] = [total_attempts |-> JInt(5), correct_attempts |-> JInt(3)]
    /\ weak_topics = <<"X">>

\* the same records: position by position the same name, summary and content,
\* and the same set of prerequisites
SameRecords(ms, ns) ==
    /\ Len(ms) = Len(ns)
    /\ \A i \in DOMAIN ms :
          /\ ms[i].name = ns[i].name
          /\ ms[i].summary = ns[i].summary
          /\ ms[i].content = ns[i].content
          /\ ToSet(ms[i].prerequisites) = ToSet(ns[i].prerequisites)

\* the names of the modules
NamesOf(ms) == {ms[i].name : i \in DOMAIN ms}

\* C17 as stated: the second application returns the records of the first; and
\* when the names of the two parts' modules are disjoint, the pass across the
\* parts returns the parts' modules unchanged.
C17_DedupIdempotentNames ==
    /\ dedup_pc \in {"again", "parts"} => SameRecords(modules_again, modules_out)
    /\ (dedup_pc = "parts" /\ NamesOf(part_outputs[1]) \cap NamesOf(part_outputs[2]) = {})
          => SameRecords(parts_result, part_outputs[1] \o part_outputs[2])

\* C17 amended: the second application returns the records of the first; and
\* when the lower-cased names of the two parts' modules are disjoint, the pass
\* across the parts returns the parts' modules unchanged.
C17_DedupIdempotentKeys ==
    /\ dedup_pc \in {"again", "parts"} => SameRecords(modules_again, modules_out)
    /\ (dedup_pc = "parts"
        /\ {Lower(n) : n \in NamesOf(part_outputs[1])}
             \cap {Lower(n) : n \in NamesOf(part_outputs[2])} = {})
          => SameRecords(parts_result, part_outputs[1] \o part_outputs[2])

\* C17 witness: three modules of which the first two merged in the first
\* application, the second application and the pass across the two parts (the
\* merged pair, then a module of another name) changing nothing.
C17_Witness ==
    /\ dedup_pc = "parts"
    /\ Len(modules_in) = 3 /\ Len(modules_out) = 2 /\ split = 2
    /\ Len(part_outputs[1]) = 1 /\ Len(part_outputs[2]) = 1
    /\ Len(part_outputs[1][1].prerequisites) = 2
    /\ modules_again = modules_out
    /\ parts_result = part_outputs[1] \o part_outputs[2]

(***************************************************************************)
(* Specification SpecParse: parse_document on every bounded file.          *)
(***************************************************************************)
\* the files: missing, of an unsupported type, failing extraction, or parsed to
\* one of the bounded texts
ParseFiles ==
    { [kind |-> k, content |-> <<>>] : k \in {"missing", "unsupported", "corrupt"} }
    \cup { [kind |-> "ok", content |-> c] : c \in Texts }

InitParse ==
    /\ IdleChunk /\ IdleClean /\ IdleDedup /\ IdlePipeline /\ IdleQuiz /\ IdleAdaptive
    /\ IdleUpload
    /\ parse_file \in ParseFiles
    /\ parse_pc = "call" /\ parse_outcome = Ok(<<>>)

NextParse == CallParseDocument

SpecParse == InitParse /\ [][NextParse]_vars

\* C18 as stated: a missing path fails with FileNotFoundError, an unsupported
\* extension with the error of unsupported formats (the ValueError of line 99),
\* which is not the class extraction failures are wrapped in, and only
\* extraction failures end as the wrapping RuntimeError.
C18_DistinctParseErrors ==
    parse_pc = "done" =>
        /\ parse_file.kind = "missing" => parse_outcome.exc = "FileNotFoundError"
        /\ parse_file.kind = "unsupported" => parse_outcome.exc = "ValueError"
        /\ parse_outcome.exc = "RuntimeError" <=> parse_file.kind = "corrupt"

\* the response holds a '[' with a ']' after it, or a '{' with a '}' after it
HoldsSpan(s) ==
    \E i, j \in 1..Len(s) :
        i < j /\ ((s[i] = "[" /\ s[j] = "]") \/ (s[i] = "{" /\ s[j] = "}"))

\* C19 as stated: on a response that holds no '[...]' span and no '{...}' span,
\* both _clean_json_response and _extract_json return the string "[]".
C19_NoSpanGivesEmptyArray ==
    (clean_pc # "call" /\ ~HoldsSpan(raw_response))
        => (cleaned_once = <<"[", "]">> /\ extracted = <<"[", "]">>)

(***************************************************************************)
(* Specification SpecUpload: one request handled by CourseUploadView.post  *)
(* (src/api/views.py).  Every statement that calls the database, the file  *)
(* system or the model library either returns or raises; an exception      *)
(* raised outside the inner try reaches the handler of lines 457-461,      *)
(* after transaction.atomic() rolled the rows back.                        *)
(***************************************************************************)
NoRows == [course |-> 0, lessons |-> 0, quizzes |-> 0]

\* lines 457-461: the outer handler; the atomic block was left by an exception
UploadFails(step) ==
    /\ database' = NoRows
    /\ http_response' = "error"
    /\ upload_pc' = "done"
    /\ upload_log' = Append(upload_log, <<step, "raises">>)

\* lines 379-391: the course row and the stored upload
UploadCreateCourse ==
    /\ upload_pc = "course"
    /\ \/ /\ database' = [database EXCEPT !.course = 1]
          /\ upload_pc' = "tempfile"
          /\ upload_log' = Append(upload_log, <<"course", "ok">>)
          /\ UNCHANGED http_response
       \/ UploadFails("course")
    /\ UNCHANGED <<temp_file, modules_data, lesson_idx>>
    /\ UNCHANGED <<vars_chunk, vars_clean, vars_dedup, vars_pipeline, vars_quiz,
                   vars_adaptive, vars_parse>>

\* lines 393-396: NamedTemporaryFile(delete=False); an exception of the
\* constructor leaves no file, one of write() leaves the file
UploadWriteTempFile ==
    /\ upload_pc = "tempfile"
    /\ \/ /\ temp_file' = "exists"
          /\ upload_pc' = "agent"
          /\ upload_log' = Append(upload_log, <<"tempfile", "ok">>)
          /\ UNCHANGED <<database, http_response>>
       \/ /\ temp_file' \in {"none", "exists"}
          /\ UploadFails("tempfile")
    /\ UNCHANGED <<modules_data, lesson_idx>>
    /\ UNCHANGED <<vars_chunk, vars_clean, vars_dedup, vars_pipeline, vars_quiz,
                   vars_adaptive, vars_parse>>

\* lines 398-405: the model client and the agent
UploadBuildAgent ==
    /\ upload_pc = "agent"
    /\ \/ /\ upload_pc' = "process"
          /\ upload_log' = Append(upload_log, <<"agent", "ok">>)
          /\ UNCHANGED <<database, http_response>>
       \/ UploadFails("agent")
    /\ UNCHANGED <<temp_file, modules_data, lesson_idx>>
    /\ UNCHANGED <<vars_chunk, vars_clean, vars_dedup, vars_pipeline, vars_quiz,
                   vars_adaptive, vars_parse>>

\* line 407: process_document returns a list of modules and raises nothing
UploadProcessDocument ==
    /\ upload_pc = "process"
    /\ modules_data' \in 0..MaxModules
    /\ lesson_idx' = 1
    /\ upload_pc' = "lesson"
    /\ upload_log' = Append(upload_log, <<"process", "ok">>)
    /\ UNCHANGED <<temp_file, database, http_response>>
    /\ UNCHANGED <<vars_chunk, vars_clean, vars_dedup, vars_pipeline, vars_quiz,
                   vars_adaptive, vars_parse>>

\* lines 409-417: the lesson of the next module, outside the inner try
UploadCreateLesson ==
    /\ upload_pc = "lesson" /\ lesson_idx <= modules_data
    /\ \/ /\ database' = [database EXCEPT !.lessons = @ + 1]
          /\ upload_pc' = "quiz"
          /\ upload_log' = Append(upload_log, <<"lesson", "ok">>)
          /\ UNCHANGED http_response
       \/ UploadFails("lesson")
    /\ UNCHANGED <<temp_file, modules_data, lesson_idx>>
    /\ UNCHANGED <<vars_chunk, vars_clean, vars_dedup, vars_pipeline, vars_quiz,
                   vars_adaptive, vars_parse>>

\* lines 419-445: the quiz of the lesson; the inner handler catches whatever
\* generate_quiz or a create() raises, before or after the Quiz row was made
UploadCreateQuiz ==
    /\ upload_pc = "quiz"
    /\ \E quiz_result \in {"no questions", "ok", "raises before quiz", "raises after quiz"} :
          /\ database' =
                IF quiz_result \in {"ok", "raises after quiz"}
                THEN [database EXCEPT !.quizzes = @ + 1] ELSE database
          /\ upload_log' = Append(upload_log, <<"quiz", quiz_result>>)
    /\ lesson_idx' = lesson_idx + 1
    /\ upload_pc' = "lesson"
    /\ UNCHANGED <<temp_file, modules_data, http_response>>
    /\ UNCHANGED <<vars_chunk, vars_clean, vars_dedup, vars_pipeline, vars_quiz,
                   vars_adaptive, vars_parse>>

\* line 447: os.unlink(temp_path), after the loop
UploadUnlink ==
    /\ upload_pc = "lesson" /\ lesson_idx > modules_data
    /\ temp_file' = "deleted"
    /\ upload_pc' = "respond"
    /\ upload_log' = Append(upload_log, <<"unlink", "ok">>)
    /\ UNCHANGED <<modules_data, lesson_idx, database, http_response>>
    /\ UNCHANGED <<vars_chunk, vars_clean, vars_dedup, vars_pipeline, vars_quiz,
                   vars_adaptive, vars_parse>>

\* lines 449-455: the lesson count is queried, the success response returned
UploadRespond ==
    /\ upload_pc = "respond"
    /\ \/ /\ http_response' = "success"
          /\ upload_pc' = "done"
          /\ upload_log' = Append(upload_log, <<"respond", "ok">>)
          /\ UNCHANGED database
       \/ UploadFails("respond")
    /\ UNCHANGED <<temp_file, modules_data, lesson_idx>>
    /\ UNCHANGED <<vars_chunk, vars_clean, vars_dedup, vars_pipeline, vars_quiz,
                   vars_adaptive, vars_parse>>

InitUpload ==
    /\ IdleChunk /\ IdleClean /\ IdleDedup /\ IdlePipeline /\ IdleQuiz /\ IdleAdaptive
    /\ IdleParse
    /\ upload_pc = "course" /\ temp_file = "none" /\ modules_data = 0 /\ lesson_idx = 0
    /\ database = NoRows
    /\ upload_log = <<>> /\ http_response = "none"

NextUpload ==
    \/ UploadCreateCourse
    \/ UploadWriteTempFile
    \/ UploadBuildAgent
    \/ UploadProcessDocument
    \/ UploadCreateLesson
    \/ UploadCreateQuiz
    \/ UploadUnlink
    \/ UploadRespond

SpecUpload == InitUpload /\ [][NextUpload]_vars

\* C20 as stated: when the handler returns, on whatever path, a temporary file
\* that was created has been deleted.
C20_TempFileDeleted ==
    http_response # "none" => temp_file # "exists"

\* C21: when process_document splits a parsed, non-empty content of length L
\* into n > 1 parts, the parts are n contiguous substrings whose concatenation
\* is the content, each but the last of length L \div n, the last holding the
\* rest; and every part, an empty one too, enters create_prerequisite_graph, in
\* ascending order.
C21_SplitIntoParts ==
    (pc # "start" /\ num_parts > 1 /\ DocUsable) =>
        LET L == Len(doc.content)
            n == num_parts
        IN  /\ Len(content_parts) = n
            /\ Concat(content_parts) = doc.content
            /\ \A k \in 1..(n - 1) : Len(content_parts[k]) = L \div n
            /\ Len(content_parts[n]) = L - (n - 1) * (L \div n)
            /\ pc = "graph" => Len(graph_calls) = part_idx
            /\ pc = "done" => Len(graph_calls) = n

\* C21 witness: a content shorter than the number of parts was split, its empty
\* leading part went through create_prerequisite_graph, and the run is over.
C21_Witness ==
    /\ pc = "done" /\ num_parts > Len(doc.content) /\ DocUsable
    /\ content_parts[1] = <<>>
    /\ Len(graph_calls) = num_parts
    /\ graph_calls[1].invoked # <<>>


\* the text of a question, trimmed and lower-cased
NormalisedText(q) == Lower(Strip(q.question.v))

\* id a comes before id b in (chunk index, position) order
IdBefore(a, b) ==
    a.chunk < b.chunk \/ (a.chunk = b.chunk /\ a.position < b.position)

\* kept holds, of the parsed questions, the earliest of every normalised text
\* and nothing else, in (chunk index, position) order
KeepsFirstOccurrences(kept) ==
    /\ \A k, l \in DOMAIN kept :
          k < l => /\ NormalisedText(kept[k]) # NormalisedText(kept[l])
                   /\ IdBefore(kept[k].id, kept[l].id)
    /\ \A k \in DOMAIN kept :
          \E c \in DOMAIN quiz_log : \E j \in DOMAIN quiz_log[c].added :
              quiz_log[c].added[j] = kept[k]
    /\ \A c \in DOMAIN quiz_log : \A j \in DOMAIN quiz_log[c].added :
          \E k \in DOMAIN kept :
              /\ NormalisedText(kept[k]) = NormalisedText(quiz_log[c].added[j])
              /\ kept[k] = quiz_log[c].added[j]
                    \/ IdBefore(kept[k].id, quiz_log[c].added[j].id)

\* C22: the list generate_quiz returns holds, for every normalised text of the
\* parsed questions, its earliest occurrence and no other, in the order the
\* questions were parsed; AdaptiveQuiz._deduplicate_questions returns the same
\* list on the same questions.
C22_KeepsFirstOccurrence ==
    quiz_outcome = "returned" =>
        /\ KeepsFirstOccurrences(unique_questions)
        /\ adaptive_unique.exc = "none"
        /\ KeepsFirstOccurrences(adaptive_unique.val)

\* C22 witness: both chunks added questions, a later question repeated an
\* earlier one in another case, and two questions were kept.
C22_Witness ==
    /\ quiz_outcome = "returned" /\ Len(quiz_log) = 2
    /\ quiz_log[1].added # <<>> /\ quiz_log[2].added # <<>>
    /\ Len(unique_questions) = 2
    /\ Len(all_questions) > 2
    /\ \E k \in DOMAIN all_questions :
          /\ all_questions[k].question # unique_questions[1].question
          /\ NormalisedText(all_questions[k]) = NormalisedText(unique_questions[1])

\* the lists that hold the modules of ms in another order
PermutationsOf(ms) ==
    { [i \in DOMAIN ms |-> ms[f[i]]]
        : f \in {g \in [DOMAIN ms -> DOMAIN ms] :
                    \A i, j \in DOMAIN ms : i # j => g[i] # g[j]} }

\* the lower-cased names of the modules of ms
KeysOf(ms) == {Lower(ms[i].name) : i \in DOMAIN ms}

\* the prerequisites, as a set, of the modules of ms whose lower-cased name is key
PrerequisitesOfKey(ms, key) ==
    UNION {ToSet(ms[i].prerequisites) : i \in {j \in DOMAIN ms : Lower(ms[j].name) = key}}

\* C23: whatever the order of the input list, _deduplicate_modules yields the
\* same lower-cased names and, for each of them, the same set of prerequisites:
\* the union of the prerequisites of all the input modules of that name.  (split
\* plays no part in the call; the permutations are tried once per input list.)
C23_PrerequisitesOrderIndependent ==
    (dedup_pc = "returned" /\ split = 0) =>
        \A permuted \in PermutationsOf(modules_in) :
            \A other \in _deduplicate_modules(permuted) :
                /\ KeysOf(other) = KeysOf(modules_out)
                /\ \A i \in DOMAIN other : \A j \in DOMAIN other :
                      i # j => Lower(other[i].name) # Lower(other[j].name)
                /\ \A key \in KeysOf(modules_out) :
                      /\ PrerequisitesOfKey(other, key) = PrerequisitesOfKey(modules_out, key)
                      /\ PrerequisitesOfKey(modules_out, key)
                            = PrerequisitesOfKey(modules_in, key)

\* C23 witness: three modules of one name with prerequisites [], [p] and [q, p]
\* were merged into one whose prerequisites are p and q.
C23_Witness ==
    /\ dedup_pc = "returned" /\ split = 0
    /\ Len(modules_in) = 3 /\ Len(modules_out) = 1
    /\ modules_in[1].prerequisites = <<>>
    /\ modules_in[2].prerequisites = <<<<"p">>>>
    /\ modules_in[3].prerequisites = <<<<"q">>, <<"p">>>>
    /\ ToSet(modules_out[1].prerequisites) = {<<"p">>, <<"q">>}

\* C24 as stated: in every module process_document returns, no prerequisite
\* occurs twice.
C24_PrerequisitesAreSet ==
    (pc = "done" /\ outcome = "returned") =>
        \A m \in DOMAIN result :
            \A i, j \in DOMAIN result[m].prerequisites :
                i # j => result[m].prerequisites[i] # result[m].prerequisites[j]

\* the modules added in the call at position k of graph_calls, from its chunk i
\* on, in (chunk index, position) order
RECURSIVE OccurrencesOfCall(_, _)
OccurrencesOfCall(k, i) ==
    IF i > Len(graph_calls[k].invoked) THEN <<>>
    ELSE graph_calls[k].invoked[i].added \o OccurrencesOfCall(k, i + 1)

\* the modules added in the calls from position k on, in (part index, chunk
\* index, position) order
RECURSIVE OccurrencesFrom(_)
OccurrencesFrom(k) ==
    IF k > Len(graph_calls) THEN <<>>
    ELSE OccurrencesOfCall(k, 1) \o OccurrencesFrom(k + 1)

\* the contents, in that order, of the occurrences whose lower-cased name is key
ContentsInProcessingOrder(key) ==
    LET same == SelectSeq(OccurrencesFrom(1), LAMBDA m : Lower(m.name) = key)
    IN  [i \in DOMAIN same |-> same[i].content]

\* C25: the parts enter create_prerequisite_graph in ascending order, each call
\* invokes its chunks in ascending order, and the content of every module of the
\* result is the "\n\n"-join of the contents of the occurrences of its name in
\* (part index, chunk index, position) order.
C25_ContentInProcessingOrder ==
    /\ \A k \in DOMAIN graph_calls :
          /\ k <= Len(content_parts)
          /\ graph_calls[k].chunks
                = Len(chunk_content(content_parts[k], max_chunk_size, chunk_limit))
          /\ \A i \in DOMAIN graph_calls[k].invoked : graph_calls[k].invoked[i].chunk = i
    /\ (pc = "done" /\ outcome = "returned") =>
          \A m \in DOMAIN result :
              result[m].content
                  = Join(<<NL, NL>>, ContentsInProcessingOrder(Lower(result[m].name)))

\* C25 witness: a document in two parts, the module "a" with content "y" of the
\* first part and the module " A" with content "x" of the second merged into
\* one module with content "y\n\nx".
C25_Witness ==
    /\ pc = "done" /\ outcome = "returned" /\ num_parts = 2
    /\ Len(graph_calls) = 2
    /\ Len(graph_calls[1].invoked[1].added) = 1
    /\ graph_calls[1].invoked[1].added[1].content = <<"y">>
    /\ Len(graph_calls[2].invoked[1].added) = 1
    /\ graph_calls[2].invoked[1].added[1].content = <<"x">>
    /\ Len(result) = 1
    /\ result[1].content = <<"y", "\n", "\n", "x">>

\* the number of opening brackets of s that no later closing bracket matches:
\* the depth left after the scan from position i at depth d
RECURSIVE UnmatchedOpens(_, _, _)
UnmatchedOpens(s, i, d) ==
    IF i > Len(s) THEN d
    ELSE UnmatchedOpens(s, i + 1,
                        CASE s[i] = "[" -> d + 1
                          [] s[i] = "]" /\ d > 0 -> d - 1
                          [] OTHER -> d)

\* the repaired text of line 311 does not end, once stripped, with ']'
LacksClosingBracket ==
    LET stripped == Strip(repaired_text)
    IN  stripped = <<>> \/ stripped[Len(stripped)] # "]"

\* the closing brackets that opening brackets of the repaired text are missing
MissingBrackets ==
    LET opens == Cardinality({i \in DOMAIN repaired_text : repaired_text[i] = "["})
        closes == Cardinality({i \in DOMAIN repaired_text : repaired_text[i] = "]"})
    IN  IF opens > closes THEN opens - closes ELSE 0

\* the step appends the missing brackets to the repaired text and removes
\* nothing but the white space around the whole
AppendsMissingBrackets ==
    /\ LacksClosingBracket =>
          cleaned_once = Strip(repaired_text \o [i \in 1..MissingBrackets |-> "]"])
    /\ ~LacksClosingBracket => cleaned_once = Strip(repaired_text)
    /\ \E rest \in {SubSeq(cleaned_once, i, Len(cleaned_once))
                      : i \in 1..(Len(cleaned_once) + 1)} :
          cleaned_once = Strip(repaired_text) \o rest

\* C26 as stated: when the repaired text does not end with ']', the missing
\* closing brackets are appended and nothing is removed, so that the output has
\* no unmatched opening bracket.
C26_NoUnmatchedOpen ==
    clean_pc # "call" =>
        /\ AppendsMissingBrackets
        /\ LacksClosingBracket => UnmatchedOpens(cleaned_once, 1, 0) = 0

\* C26 amended: when the repaired text does not end with ']', the missing
\* closing brackets are appended and nothing is removed, so that the output
\* holds at least as many closing brackets as opening ones.
C26_BracketCountsBalanced ==
    clean_pc # "call" =>
        /\ AppendsMissingBrackets
        /\ LacksClosingBracket =>
              Cardinality({i \in DOMAIN cleaned_once : cleaned_once[i] = "["})
                  <= Cardinality({i \in DOMAIN cleaned_once : cleaned_once[i] = "]"})

\* C26 witness: the response "[[a" came back as "[[a]]".
C26_Witness ==
    /\ clean_pc # "call"
    /\ repaired_text = <<"[", "[", "a">>
    /\ cleaned_once = <<"[", "[", "a", "]", "]">>

\* the deep-repaired text of the response does not parse, or parses to an array
\* holding an object with both keys that is not well-formed
RepairStillFails(response) ==
    \/ response.repaired = DecodeError
    \/ /\ response.repaired.t = "list"
       /\ \E i \in DOMAIN response.repaired.v :
             /\ ~LacksRequiredKey(response.repaired.v[i])
             /\ ~WellFormedModule(response.repaired.v[i])

\* C27: in every iteration of the loop of create_prerequisite_graph, _repair_json
\* is called at most once, and exactly when the first parse of the cleaned text
\* was a JSON decode error; when the deep-repaired text fails too, the chunk adds
\* nothing, nothing is raised, the modules collected so far are unchanged, and
\* the loop goes on to the next chunk (after the last chunk, the call returns
\* the modules collected so far, deduplicated).
C27_DeepRepairOnce ==
    [][ (pc = "graph" /\ graph_calls' # graph_calls) =>
          LET k == Len(graph_calls)
              step == graph_calls'[k].last
          IN  /\ step.repairs \in {0, 1}
              /\ step.repairs = 1
                    <=> (step.response.kind = "text" /\ step.response.direct = DecodeError)
              /\ (step.repairs = 1 /\ RepairStillFails(step.response)) =>
                    /\ step.added = <<>>
                    /\ outcome' # "raised"
                    /\ IF chunk_idx < Len(part_chunks)
                       THEN /\ pc' = "graph" /\ part_idx' = part_idx
                            /\ chunk_idx' = chunk_idx + 1
                            /\ all_modules' = all_modules
                       ELSE /\ graph_calls'[k].returned
                            /\ \E final \in _deduplicate_modules(all_modules) :
                                  IF num_parts <= 1 THEN result' = final
                                  ELSE parts_modules' = parts_modules \o final
    ]_vars

\* C27 witness: the first chunk of a call added a module; on the second the
\* cleaned text did not parse and the deep-repaired text held an object that
\* cannot be validated; the run returned the module of the first chunk.
C27_Witness ==
    /\ pc = "done" /\ outcome = "returned" /\ num_parts = 1
    /\ Len(graph_calls) = 1
    /\ Len(graph_calls[1].invoked) = 2
    /\ graph_calls[1].invoked[1].added # <<>>
    /\ graph_calls[1].last.repairs = 1
    /\ graph_calls[1].last.response.repaired # DecodeError
    /\ RepairStillFails(graph_calls[1].last.response)
    /\ graph_calls[1].last.added = <<>>
    /\ result = graph_calls[1].invoked[1].added

\* the units of the paragraphs from position i on: a paragraph within the
\* budget is one unit, a paragraph that alone exceeds it gives its sentences
RECURSIVE UnitsFrom(_, _, _)
UnitsFrom(paragraphs, i, budget) ==
    IF i > Len(paragraphs) THEN <<>>
    ELSE (IF estimate_tokens(paragraphs[i]) > budget
          THEN [j \in DOMAIN SplitSentences(paragraphs[i]) |->
                   [paragraph |-> i, sentence |-> j,
                    unit |-> SplitSentences(paragraphs[i])[j]]]
          ELSE <<[paragraph |-> i, sentence |-> 0, unit |-> paragraphs[i]]>>)
         \o UnitsFrom(paragraphs, i + 1, budget)

\* the units i..j are paragraphs, or sentences of one paragraph
IsRun(units, i, j) ==
    \/ \A m \in i..j : units[m].sentence = 0
    \/ \A m \in i..j : units[m].sentence # 0 /\ units[m].paragraph = units[i].paragraph

\* the units i..j joined as a chunk joins them
RunText(units, i, j) ==
    Join(IF units[i].sentence = 0 THEN <<NL, NL>> ELSE <<SP>>,
         [m \in 1..(j - i + 1) |-> units[i + m - 1].unit])

\* the units from position i on are exactly what the chunks hold from offset off
\* of chunk k on, in order: every chunk is made of runs of units, one run or
\* (after coalescing) several joined by "\n\n"
RECURSIVE HoldsUnitsFrom(_, _, _, _, _)
HoldsUnitsFrom(units, i, cs, k, off) ==
    IF k > Len(cs) THEN i > Len(units)
    ELSE \E j \in i..Len(units) :
            /\ IsRun(units, i, j)
            /\ LET run == RunText(units, i, j)
                   rest == SubSeq(cs[k], off, Len(cs[k]))
               IN  \/ rest = run /\ HoldsUnitsFrom(units, j + 1, cs, k + 1, 1)
                   \/ /\ StartsWithAt(rest, 1, run \o <<NL, NL>>)
                      /\ HoldsUnitsFrom(units, j + 1, cs, k, off + Len(run) + 2)

\* C28: every paragraph of the text, and every sentence of a paragraph that
\* alone exceeds the budget, is found in exactly one returned chunk, and the
\* chunks hold these units in the order of the text.
C28_NoUnitDropped ==
    chunk_pc = "returned" =>
        HoldsUnitsFrom(UnitsFrom(SplitParagraphs(text), 1, max_tokens), 1, chunks, 1, 1)

\* C28 witness: a paragraph within the budget, an oversized paragraph of two
\* sentences and a third paragraph, returned in four chunks.
C28_Witness ==
    /\ chunk_pc = "returned" /\ max_chunks = 0 /\ max_tokens = 1
    /\ Len(SplitParagraphs(text)) = 3
    /\ estimate_tokens(SplitParagraphs(text)[1]) = 1
    /\ estimate_tokens(SplitParagraphs(text)[2]) > 1
    /\ Len(SplitSentences(SplitParagraphs(text)[2])) = 2
    /\ estimate_tokens(SplitParagraphs(text)[3]) = 1
    /\ Len(chunks) = 4
    /\ chunks[2] = SplitSentences(SplitParagraphs(text)[2])[1]
    /\ chunks[3] = SplitSentences(SplitParagraphs(text)[2])[2]

\* C29: for every content and budget, QuizGenerator._chunk_module_content
\* returns the chunks that ContentStructurer.chunk_content returns for the same
\* budget when no max_chunks is given.
C29_QuizChunksAsChunker ==
    (chunk_pc = "returned" /\ max_chunks = 0) => quiz_chunks = chunks

\* C29 witness: a text over the budget holding a paragraph that was cut into
\* sentences, chunked alike by both.
C29_Witness ==
    /\ chunk_pc = "returned" /\ max_chunks = 0
    /\ estimate_tokens(text) > max_tokens
    /\ Len(SplitParagraphs(text)) >= 2
    /\ \E i \in DOMAIN SplitParagraphs(text) :
          /\ estimate_tokens(SplitParagraphs(text)[i]) > max_tokens
          /\ \E k \in DOMAIN quiz_chunks :
                quiz_chunks[k] = SplitSentences(SplitParagraphs(text)[i])[1]
                /\ Len(SplitSentences(SplitParagraphs(text)[i])) >= 2
    /\ Len(quiz_chunks) >= 3
    /\ quiz_chunks = chunks

\* C30 as stated: for every content and budget, AdaptiveQuiz._chunk_content
\* returns the chunks that QuizGenerator._chunk_module_content returns.
C30_AdaptiveChunksAsQuiz ==
    chunk_pc = "returned" => adaptive_chunks = quiz_chunks

====
